---- MODULE Spec2Model ----
(***************************************************************************)
(* Model of the limit order book of src/src/orderbook.rs, with its order   *)
(* pool (src/src/memory.rs) and its price levels (src/src/types.rs).       *)
(* One action per public call: add_order, cancel_order, market_depth, and  *)
(* the calls of PriceLookupTable (src/src/memory.rs).                      *)
(***************************************************************************)
EXTENDS Integers, Sequences, FiniteSets, TLC

\* ------------------------------------------------------------------------
\* Program constants
\* ------------------------------------------------------------------------
PRICE_LEVELS == 1024

base_price == 10000

tick_size == 1

\* ------------------------------------------------------------------------
\* Bounds of the model
\* ------------------------------------------------------------------------
\* capacity passed to OrderBook::new
Capacity == 3

\* order ids are 0..MaxOrderId (from Capacity on the id index has to grow)
MaxOrderId == 3

\* quantities submitted are 0..MaxQty (Order::new takes any u64, 0 included)
MaxQty == 2

\* add_order calls that pass the duplicate-id check (caps total_orders_processed)
MaxProcessed == 3

\* the same cap, for the runs that fill one level with three orders
MaxProcessedDeep == 4

\* nanoseconds between the two clock readings of precise_time_ns, at most
MaxElapsed == 2

\* capacity passed to PriceLookupTable::new (with 0 no vector is allocated
\* up front and the first insert has to grow the table)
TableCapacity == 0

\* entries a PriceLookupTable holds at most: one SIMD vector, all four lanes
MaxEntries == 4

\* prices given to the PriceLookupTable are 0..MaxTablePrice
MaxTablePrice == 3

\* level indices given to the PriceLookupTable are 0..MaxTableIndex
MaxTableIndex == 1

\* ------------------------------------------------------------------------
\* Inputs
\* ------------------------------------------------------------------------
OrderIds == 0..MaxOrderId

Quantities == 0..MaxQty

\* both edges of both windows, and two levels a side
LimitPrices ==
  { base_price - PRICE_LEVELS, base_price - (PRICE_LEVELS - 1), base_price - 1,
    base_price, base_price + (PRICE_LEVELS - 1), base_price + PRICE_LEVELS }

MarketPrices == {0}

\* one level a side, next to base_price
DeepPrices == { base_price - 1, base_price }

Sides == {"Buy", "Sell"}

TablePrices == 0..MaxTablePrice

TableIndices == 0..MaxTableIndex

\* ------------------------------------------------------------------------
\* Option<T>: None is the empty sequence, Some(x) a one-element sequence
\* ------------------------------------------------------------------------
None == <<>>

Some(x) == <<x>>

is_some(opt) == opt # <<>>

is_none(opt) == opt = <<>>

unwrap(opt) == opt[1]

\* the larger of the two: a match for more than one of the orders has
Min_larger(a, b) == IF a <= b THEN b ELSE a

Min(a, b) == IF a <= b THEN a ELSE b

\* ------------------------------------------------------------------------
\* types.rs: Order
\* ------------------------------------------------------------------------
\* Order::new packs side and type into the flags byte
Order_new(order_id, price, quantity, side, order_type) ==
  [ order_id |-> order_id,
    price    |-> price,
    quantity |-> quantity,
    flags    |-> (IF side = "Sell" THEN 1 ELSE 0)
                 + (IF order_type = "Market" THEN 2 ELSE 0) ]

Order_side(order) == IF order.flags % 2 = 0 THEN "Buy" ELSE "Sell"

Order_order_type(order) ==
  IF (order.flags \div 2) % 2 = 0 THEN "Limit" ELSE "Market"

\* ------------------------------------------------------------------------
\* types.rs: PriceLevel
\* ------------------------------------------------------------------------
PriceLevel_new(price) ==
  [ price |-> price, total_quantity |-> 0, order_indices |-> <<>> ]

PriceLevel_add_order(level, order_index, quantity) ==
  [ level EXCEPT !.order_indices = Append(@, order_index),
                 !.total_quantity = @ + quantity ]

\* position of the first occurrence of x in s, 0 when absent
Position(s, x) ==
  IF \E i \in 1..Len(s) : s[i] = x
  THEN CHOOSE i \in 1..Len(s) : s[i] = x /\ \A j \in 1..(i - 1) : s[j] # x
  ELSE 0

\* Vec::swap_remove(pos): the last element takes the place of the removed one
swap_remove(s, pos) ==
  IF pos = Len(s)
  THEN SubSeq(s, 1, Len(s) - 1)
  ELSE [ i \in 1..(Len(s) - 1) |-> IF i = pos THEN s[Len(s)] ELSE s[i] ]

\* Vec::retain(|idx| idx != x)
retain_ne(s, x) == SelectSeq(s, LAMBDA e : e # x)

\* PriceLevel::remove_order leaving total_quantity as it was
PriceLevel_remove_order_keep_total(level, order_index, quantity) ==
  LET pos == Position(level.order_indices, order_index)
  IN  IF pos # 0
      THEN [ level   |-> [ level EXCEPT
                             !.order_indices = swap_remove(@, pos) ],
             removed |-> TRUE ]
      ELSE [ level |-> level, removed |-> FALSE ]

\* PriceLevel::remove_order: [level, removed]
PriceLevel_remove_order(level, order_index, quantity) ==
  LET pos == Position(level.order_indices, order_index)
  IN  IF pos # 0
      THEN [ level   |-> [ level EXCEPT
                             !.order_indices = swap_remove(@, pos),
                             !.total_quantity = @ - quantity ],
             removed |-> TRUE ]
      ELSE [ level |-> level, removed |-> FALSE ]

PriceLevel_is_empty(level) == level.order_indices = <<>>

\* ------------------------------------------------------------------------
\* orderbook.rs: price <-> index
\* ------------------------------------------------------------------------
\* buy_price_to_idx letting base_price itself in
buy_price_to_idx_incl(price) ==
  IF price > base_price THEN None
  ELSE LET idx == (base_price - price) \div tick_size
       IN  IF idx < PRICE_LEVELS THEN Some(idx) ELSE None

buy_price_to_idx(price) ==
  IF price >= base_price THEN None
  ELSE LET idx == (base_price - price) \div tick_size
       IN  IF idx < PRICE_LEVELS THEN Some(idx) ELSE None

sell_price_to_idx(price) ==
  IF price < base_price THEN None
  ELSE LET idx == (price - base_price) \div tick_size
       IN  IF idx < PRICE_LEVELS THEN Some(idx) ELSE None

\* buy_idx_to_price with the sign of the sell side
buy_idx_to_price_plus(idx) == base_price + (idx * tick_size)

buy_idx_to_price(idx) == base_price - (idx * tick_size)

\* sell_idx_to_price with the sign of the buy side
sell_idx_to_price_minus(idx) == base_price - (idx * tick_size)

sell_idx_to_price(idx) == base_price + (idx * tick_size)

\* ------------------------------------------------------------------------
\* Vec<Option<PriceLevel>> of length PRICE_LEVELS, kept as the function from
\* the occupied offsets to their levels: a slot outside the domain is None
\* ------------------------------------------------------------------------
NoLevels == [ i \in {} |-> PriceLevel_new(0) ]

\* levels[idx]
level_at(levels, idx) ==
  IF idx \in DOMAIN levels THEN Some(levels[idx]) ELSE None

\* levels[idx] = opt
put_level(levels, idx, opt) ==
  IF is_some(opt)
  THEN [ i \in DOMAIN levels \cup {idx} |->
           IF i = idx THEN unwrap(opt) ELSE levels[i] ]
  ELSE [ i \in DOMAIN levels \ {idx} |-> levels[i] ]

\* first occupied slot at or after from, as the scanning loops find it
FirstOccupied(levels, from) ==
  LET occ == { i \in DOMAIN levels : from <= i /\ i < PRICE_LEVELS }
  IN  IF occ = {} THEN None
      ELSE Some(CHOOSE i \in occ : \A j \in occ : i <= j)

\* ------------------------------------------------------------------------
\* State: the fields of OrderBook and of its OrderPool
\* ------------------------------------------------------------------------
VARIABLES
  pool,                    \* OrderPool.pool: handle -> None (uninitialised) or Some(order)
  free_indices,            \* OrderPool.free_indices, a stack (the top is the last element)
  order_id_to_index,       \* id -> Option<handle>, a vector indexed from 0
  max_order_id,
  buy_levels,              \* occupied offset -> PriceLevel
  sell_levels,
  best_bid_idx,            \* Option<offset>
  best_ask_idx,
  order_count,             \* perf feature, read by the tests through summary()
  total_orders_processed,
  total_quantity_matched,
  rest_seq,                \* ids of the resting orders, in the order they came to rest
  lookup,                  \* a PriceLookupTable: [prices, indices, size]
  inserted,                \* price -> index, as insert was called and remove was not
  last                     \* the last call: its arguments and what it returned

vars ==
  << pool, free_indices, order_id_to_index, max_order_id, buy_levels,
     sell_levels, best_bid_idx, best_ask_idx, order_count,
     total_orders_processed, total_quantity_matched, rest_seq, lookup,
     inserted, last >>

\* the book as one value, as the methods see it through self
Self ==
  [ pool                   |-> pool,
    free_indices           |-> free_indices,
    order_id_to_index      |-> order_id_to_index,
    max_order_id           |-> max_order_id,
    buy_levels             |-> buy_levels,
    sell_levels            |-> sell_levels,
    best_bid_idx           |-> best_bid_idx,
    best_ask_idx           |-> best_ask_idx,
    order_count            |-> order_count,
    total_orders_processed |-> total_orders_processed,
    total_quantity_matched |-> total_quantity_matched,
    rest_seq               |-> rest_seq ]

\* OrderPool::new: every slot uninitialised, free list capacity-1 down to 0
OrderPool_new(capacity) ==
  [ pool         |-> [ h \in 0..(capacity - 1) |-> None ],
    free_indices |-> [ i \in 1..capacity |-> capacity - i ] ]

\* OrderBook::new
OrderBook_new(capacity) ==
  [ pool                   |-> OrderPool_new(capacity).pool,
    free_indices           |-> OrderPool_new(capacity).free_indices,
    order_id_to_index      |-> [ i \in 0..(capacity - 1) |-> None ],
    max_order_id           |-> 0,
    buy_levels             |-> NoLevels,
    sell_levels            |-> NoLevels,
    best_bid_idx           |-> None,
    best_ask_idx           |-> None,
    order_count            |-> 0,
    total_orders_processed |-> 0,
    total_quantity_matched |-> 0,
    rest_seq               |-> <<>> ]

find_best_bid_idx(b) == FirstOccupied(b.buy_levels, 0)

find_best_ask_idx(b) == FirstOccupied(b.sell_levels, 0)

best_bid(b) ==
  IF is_some(b.best_bid_idx) THEN Some(buy_idx_to_price(unwrap(b.best_bid_idx)))
  ELSE None

best_ask(b) ==
  IF is_some(b.best_ask_idx) THEN Some(sell_idx_to_price(unwrap(b.best_ask_idx)))
  ELSE None

\* a - b on u64: below 0 the debug build panics and the release build wraps,
\* neither of which is a difference of the two; -1 stands for both
u64_sub(a, b) == IF a >= b THEN a - b ELSE -1

\* spread taking the ask from the bid
spread_reversed(b) ==
  IF is_some(best_bid(b)) /\ is_some(best_ask(b))
  THEN Some(u64_sub(unwrap(best_bid(b)), unwrap(best_ask(b))))
  ELSE None

\* "Get the spread"
spread(b) ==
  IF is_some(best_bid(b)) /\ is_some(best_ask(b))
  THEN Some(u64_sub(unwrap(best_ask(b)), unwrap(best_bid(b))))
  ELSE None

\* "Check if this orderbook is crossed (invalid state)"
is_crossed(b) ==
  IF is_some(best_bid(b)) /\ is_some(best_ask(b))
  THEN unwrap(best_bid(b)) >= unwrap(best_ask(b))
  ELSE FALSE

\* Vec::get(id).map(is_some).unwrap_or(false)
id_is_live(b, order_id) ==
  /\ order_id \in DOMAIN b.order_id_to_index
  /\ is_some(b.order_id_to_index[order_id])

\* ------------------------------------------------------------------------
\* Matching.  m = [b: the book, quantity: what is left of the incoming
\* order, executions: the vector built so far, visited: the offsets the
\* while loop has worked on]; lv is the field of the
\* side matched against and bi the field of its cached best offset.
\* ------------------------------------------------------------------------
idx_to_price(lv, idx) ==
  IF lv = "sell_levels" THEN sell_idx_to_price(idx) ELSE buy_idx_to_price(idx)

\* Execution reporting the side of the incoming order
Execution_taker_side(resting_order, price, match_qty) ==
  [ order_id |-> resting_order.order_id,
    price    |-> price,
    quantity |-> match_qty,
    side     |-> IF Order_side(resting_order) = "Buy" THEN "Sell" ELSE "Buy" ]

\* "Create execution report"
Execution(resting_order, price, match_qty) ==
  [ order_id |-> resting_order.order_id,
    price    |-> price,
    quantity |-> match_qty,
    side     |-> Order_side(resting_order) ]

\* Fill leaving the id of a resting order that is used up in the id index
Fill_keep_index(m, lv, idx, price, resting_idx, resting_order, level, match_qty, filled) ==
  [ b |-> [ m.b EXCEPT
              !.pool[resting_idx] =
                 Some([ resting_order EXCEPT !.quantity = @ - match_qty ]),
              ![lv] = put_level(@, idx,
                 Some([ level EXCEPT
                          !.total_quantity = @ - match_qty,
                          !.order_indices =
                             IF filled THEN retain_ne(@, resting_idx) ELSE @ ])),
              !.total_quantity_matched = @ + match_qty,
              !.free_indices = IF filled THEN Append(@, resting_idx) ELSE @,
              !.order_count = IF filled THEN @ - 1 ELSE @,
              !.rest_seq =
                 IF filled THEN retain_ne(@, resting_order.order_id) ELSE @ ],
    quantity   |-> m.quantity - match_qty,
    executions |-> Append(m.executions,
                          Execution(resting_order, price, match_qty)),
    visited    |-> m.visited ]

\* Fill leaving order_count as it was when a resting order is used up
Fill_keep_count(m, lv, idx, price, resting_idx, resting_order, level, match_qty, filled) ==
  [ b |-> [ m.b EXCEPT
              !.pool[resting_idx] =
                 Some([ resting_order EXCEPT !.quantity = @ - match_qty ]),
              ![lv] = put_level(@, idx,
                 Some([ level EXCEPT
                          !.total_quantity = @ - match_qty,
                          !.order_indices =
                             IF filled THEN retain_ne(@, resting_idx) ELSE @ ])),
              !.total_quantity_matched = @ + match_qty,
              !.order_id_to_index[resting_order.order_id] =
                 IF filled THEN None ELSE @,
              !.free_indices = IF filled THEN Append(@, resting_idx) ELSE @,
              !.rest_seq =
                 IF filled THEN retain_ne(@, resting_order.order_id) ELSE @ ],
    quantity   |-> m.quantity - match_qty,
    executions |-> Append(m.executions,
                          Execution(resting_order, price, match_qty)),
    visited    |-> m.visited ]

\* "Update quantities", and the removal of a resting order that is used up
Fill(m, lv, idx, price, resting_idx, resting_order, level, match_qty, filled) ==
  [ b |-> [ m.b EXCEPT
              !.pool[resting_idx] =
                 Some([ resting_order EXCEPT !.quantity = @ - match_qty ]),
              ![lv] = put_level(@, idx,
                 Some([ level EXCEPT
                          !.total_quantity = @ - match_qty,
                          !.order_indices =
                             IF filled THEN retain_ne(@, resting_idx) ELSE @ ])),
              !.total_quantity_matched = @ + match_qty,
              !.order_id_to_index[resting_order.order_id] =
                 IF filled THEN None ELSE @,
              !.free_indices = IF filled THEN Append(@, resting_idx) ELSE @,
              !.order_count = IF filled THEN @ - 1 ELSE @,
              !.rest_seq =
                 IF filled THEN retain_ne(@, resting_order.order_id) ELSE @ ],
    quantity   |-> m.quantity - match_qty,
    executions |-> Append(m.executions,
                          Execution(resting_order, price, match_qty)),
    visited    |-> m.visited ]

\* MatchOne sending a resting order that was filled in part to the tail of
\* its level
MatchOne_to_tail(m, lv, idx, price, resting_idx, resting_order) ==
  IF resting_order.quantity <= m.quantity
  THEN Fill(m, lv, idx, price, resting_idx, resting_order,
            unwrap(level_at(m.b[lv], idx)), resting_order.quantity, TRUE)
  ELSE [ Fill(m, lv, idx, price, resting_idx, resting_order,
              unwrap(level_at(m.b[lv], idx)), m.quantity, FALSE)
         EXCEPT !.b[lv][idx].order_indices =
                   Append(retain_ne(@, resting_idx), resting_idx) ]

\* one pass of the body of `for resting_idx in resting_indices`
MatchOne(m, lv, idx, price, resting_idx, resting_order) ==
  Fill(m, lv, idx, price, resting_idx, resting_order,
       unwrap(level_at(m.b[lv], idx)),
       Min(resting_order.quantity, m.quantity),
       resting_order.quantity <= m.quantity)

RECURSIVE MatchResting(_, _, _, _, _, _)
\* the loop over the clone of the level's FIFO, from position k
MatchResting(m, lv, idx, price, resting_indices, k) ==
  IF k > Len(resting_indices) \/ m.quantity = 0 THEN m
  ELSE MatchResting(MatchOne(m, lv, idx, price, resting_indices[k],
                             unwrap(m.b.pool[resting_indices[k]])),
                    lv, idx, price, resting_indices, k + 1)

\* price_unacceptable accepting every price: the limit does not bound the walk
price_unacceptable_never(lv, price, order) == FALSE

\* the price check of the limit loops: stop at a level worse than the limit
price_unacceptable(lv, price, order) ==
  IF lv = "sell_levels" THEN price > order.price ELSE price < order.price

\* RemoveLevel leaving the cached best offset as it was
RemoveLevel_keep_best(m, lv, bi, idx, current_idx) ==
  [ m           |-> [ m EXCEPT !.b[lv] = put_level(@, idx, None) ],
    current_idx |-> current_idx ]

\* "If the level is now empty, remove it", "Find the next price level",
\* "Update best ask if needed": [m, current_idx]
RemoveLevel(m, lv, bi, idx, current_idx) ==
  [ m           |-> [ m EXCEPT
                        !.b[lv] = put_level(@, idx, None),
                        !.b[bi] = IF Some(idx) = @ THEN current_idx ELSE @ ],
    current_idx |-> current_idx ]

\* AfterLevel looking for the next level from offset 0 again
AfterLevel_from_start(m, lv, bi, idx) ==
  IF PriceLevel_is_empty(unwrap(level_at(m.b[lv], idx)))
  THEN RemoveLevel(m, lv, bi, idx, FirstOccupied(m.b[lv], 0))
  ELSE [ m |-> m, current_idx |-> Some(idx) ]

AfterLevel(m, lv, bi, idx) ==
  IF PriceLevel_is_empty(unwrap(level_at(m.b[lv], idx)))
  THEN RemoveLevel(m, lv, bi, idx, FirstOccupied(m.b[lv], idx + 1))
  ELSE [ m |-> m, current_idx |-> Some(idx) ]

RECURSIVE MatchLevels(_, _, _, _, _, _)
\* NextLevel leaving the loop after the first level
NextLevel_stop(a, lv, bi, bounded, order) == a.m

\* the next turn of `while let Some(idx) = current_idx`
NextLevel(a, lv, bi, bounded, order) ==
  MatchLevels(a.m, a.current_idx, lv, bi, bounded, order)

\* the loop body is past its two breaks at offset idx: visited lists the
\* offsets whose slot the loop went on to look at
Visit(m, idx) == [ m EXCEPT !.visited = Append(@, idx) ]

\* the body of the while loop at offset idx
MatchLevel(m, idx, lv, bi, bounded, order) ==
  IF bounded /\ price_unacceptable(lv, idx_to_price(lv, idx), order) THEN m
  ELSE IF is_some(level_at(m.b[lv], idx))
  THEN NextLevel(AfterLevel(MatchResting(Visit(m, idx), lv, idx,
                              idx_to_price(lv, idx),
                              unwrap(level_at(m.b[lv], idx)).order_indices, 1),
                            lv, bi, idx),
                 lv, bi, bounded, order)
  ELSE MatchLevels(Visit(m, idx), FirstOccupied(m.b[lv], idx + 1), lv, bi,
                   bounded, order)

\* `while let Some(idx) = current_idx`
MatchLevels(m, current_idx, lv, bi, bounded, order) ==
  IF is_none(current_idx) \/ m.quantity = 0 THEN m
  ELSE MatchLevel(m, unwrap(current_idx), lv, bi, bounded, order)

StartMatch(b, order) ==
  [ b |-> b, quantity |-> order.quantity, executions |-> <<>>,
    visited |-> <<>> ]

match_limit_order(b, order) ==
  IF Order_side(order) = "Buy"
  THEN MatchLevels(StartMatch(b, order), b.best_ask_idx,
                   "sell_levels", "best_ask_idx", TRUE, order)
  ELSE MatchLevels(StartMatch(b, order), b.best_bid_idx,
                   "buy_levels", "best_bid_idx", TRUE, order)

\* match_market_order walking the order's own side
match_market_order_same_side(b, order) ==
  IF Order_side(order) = "Sell"
  THEN MatchLevels(StartMatch(b, order), b.best_ask_idx,
                   "sell_levels", "best_ask_idx", FALSE, order)
  ELSE MatchLevels(StartMatch(b, order), b.best_bid_idx,
                   "buy_levels", "best_bid_idx", FALSE, order)

match_market_order(b, order) ==
  IF Order_side(order) = "Buy"
  THEN MatchLevels(StartMatch(b, order), b.best_ask_idx,
                   "sell_levels", "best_ask_idx", FALSE, order)
  ELSE MatchLevels(StartMatch(b, order), b.best_bid_idx,
                   "buy_levels", "best_bid_idx", FALSE, order)

\* ------------------------------------------------------------------------
\* OrderPool::allocate / deallocate
\* ------------------------------------------------------------------------
VecLen(v) == Cardinality(DOMAIN v)

\* [b, index]: pops the free list and writes the slot, or None when exhausted
OrderPool_allocate(b, order) ==
  IF Len(b.free_indices) > 0
  THEN [ b     |-> [ b EXCEPT
                       !.pool[b.free_indices[Len(b.free_indices)]] = Some(order),
                       !.free_indices = SubSeq(@, 1, Len(@) - 1) ],
         index |-> Some(b.free_indices[Len(b.free_indices)]) ]
  ELSE [ b |-> b, index |-> None ]

\* deallocate pushing the handle on the free list twice
OrderPool_deallocate_twice(b, index) ==
  [ b EXCEPT !.free_indices = Append(Append(@, index), index) ]

OrderPool_deallocate(b, index) ==
  [ b EXCEPT !.free_indices = Append(@, index) ]

\* ------------------------------------------------------------------------
\* PriceLookupTable: prices and indices are vectors of 4-lane SIMD values
\* ------------------------------------------------------------------------
Lanes == 0..3

Simd_splat(x) == [ lane \in Lanes |-> x ]

Vec_push(v, x) ==
  [ i \in 0..VecLen(v) |-> IF i \in DOMAIN v THEN v[i] ELSE x ]

\* PriceLookupTable::new: "Round up to the nearest multiple of 4"
PriceLookupTable_new(capacity) ==
  LET vec_capacity == (capacity + 3) \div 4
  IN  [ prices  |-> [ i \in 0..(vec_capacity - 1) |-> Simd_splat(0) ],
        indices |-> [ i \in 0..(vec_capacity - 1) |-> Simd_splat(0) ],
        size    |-> 0 ]

\* "Resize if needed"
lookup_resize(t, simd_idx) ==
  IF simd_idx >= VecLen(t.prices)
  THEN [ t EXCEPT !.prices = Vec_push(@, Simd_splat(0)),
                  !.indices = Vec_push(@, Simd_splat(0)) ]
  ELSE t

\* PriceLookupTable::insert
PriceLookupTable_insert(t, price, index) ==
  LET simd_idx == t.size \div 4
      lane == t.size % 4
  IN  [ lookup_resize(t, simd_idx) EXCEPT
          !.prices[simd_idx][lane] = price,
          !.indices[simd_idx][lane] = index,
          !.size = @ + 1 ]

\* price_vec.simd_eq(search_val)
simd_eq(price_vec, price) == [ lane \in Lanes |-> price_vec[lane] = price ]

mask_any(mask) == \E lane \in Lanes : mask[lane]

\* "Extract the matching lane index": the first lane the inner loop accepts
matching_lane(t, mask) ==
  LET hits == { lane \in Lanes : mask[lane] /\ lane < t.size % 4 }
  IN  IF hits = {} THEN None
      ELSE Some(CHOOSE lane \in hits : \A l \in hits : lane <= l)

\* the loop of find, from vector i on
RECURSIVE find_from(_, _, _)
find_from(t, price, i) ==
  IF i >= (t.size + 3) \div 4 THEN None
  ELSE LET mask == simd_eq(t.prices[i], price)
       IN  IF ~mask_any(mask) THEN find_from(t, price, i + 1)
           ELSE IF is_some(matching_lane(t, mask))
           THEN Some(t.indices[i][unwrap(matching_lane(t, mask))])
           ELSE find_from(t, price, i + 1)

\* PriceLookupTable::find
PriceLookupTable_find(t, price) == find_from(t, price, 0)

\* "Find the price": the loop of remove, Some(<<idx, lane>>) when found
RECURSIVE remove_scan(_, _, _)
remove_scan(t, price, i) ==
  IF i >= (t.size + 3) \div 4 THEN None
  ELSE LET mask == simd_eq(t.prices[i], price)
       IN  IF ~mask_any(mask) THEN remove_scan(t, price, i + 1)
           ELSE IF is_some(matching_lane(t, mask))
           THEN Some(<< i, unwrap(matching_lane(t, mask)) >>)
           ELSE remove_scan(t, price, i + 1)

\* "Remove by swapping with the last element"
remove_found(t, idx, lane) ==
  LET last_simd_idx == (t.size - 1) \div 4
      last_lane == (t.size - 1) % 4
  IN  IF idx = last_simd_idx /\ lane = last_lane
      THEN [ t EXCEPT !.size = @ - 1 ]
      ELSE [ t EXCEPT
               !.prices[idx][lane] = t.prices[last_simd_idx][last_lane],
               !.indices[idx][lane] = t.indices[last_simd_idx][last_lane],
               !.size = @ - 1 ]

\* PriceLookupTable::remove: [t, result]
PriceLookupTable_remove(t, price) ==
  LET found == remove_scan(t, price, 0)
  IN  IF is_some(found)
      THEN [ t |-> remove_found(t, unwrap(found)[1], unwrap(found)[2]),
             result |-> TRUE ]
      ELSE [ t |-> t, result |-> FALSE ]

\* PriceLookupTable::len
PriceLookupTable_len(t) == t.size

\* ------------------------------------------------------------------------
\* OrderBook::add_order: [b, result, executions, fills]
\*   executions: what the caller receives; fills: the vector matching built
\* ------------------------------------------------------------------------
\* "Ensure order ID is within our capacity"
expand_ids(b, order_id) ==
  IF order_id >= VecLen(b.order_id_to_index) /\ order_id > b.max_order_id
  THEN [ b EXCEPT
           !.max_order_id = order_id,
           !.order_id_to_index =
              [ i \in 0..order_id |-> IF i \in DOMAIN @ THEN @[i] ELSE None ] ]
  ELSE b

\* the limit reaches the opposite best price
crosses(b, order) ==
  IF Order_side(order) = "Buy"
  THEN /\ is_some(b.best_ask_idx)
       /\ order.price >= sell_idx_to_price(unwrap(b.best_ask_idx))
  ELSE /\ is_some(b.best_bid_idx)
       /\ order.price <= buy_idx_to_price(unwrap(b.best_bid_idx))

\* "Try to match the order"
try_match(b, order) ==
  IF crosses(b, order) THEN match_limit_order(b, order)
  ELSE StartMatch(b, order)

\* "Convert price to index"
price_to_idx(order) ==
  IF Order_side(order) = "Buy" THEN buy_price_to_idx(order.price)
  ELSE sell_price_to_idx(order.price)

side_levels(order) ==
  IF Order_side(order) = "Buy" THEN "buy_levels" ELSE "sell_levels"

\* side_best naming the cache of the opposite side
side_best_opposite(order) ==
  IF Order_side(order) = "Buy" THEN "best_ask_idx" ELSE "best_bid_idx"

side_best(order) ==
  IF Order_side(order) = "Buy" THEN "best_bid_idx" ELSE "best_ask_idx"

\* "Get or create price level"
get_or_insert(levels, price_idx, price) ==
  IF price_idx \in DOMAIN levels THEN levels[price_idx]
  ELSE PriceLevel_new(price)

\* update_best with the comparison turned round: the cache follows the worst level
update_best_worst(best_idx, price_idx) ==
  IF is_none(best_idx) \/ price_idx > unwrap(best_idx)
  THEN Some(price_idx) ELSE best_idx

\* "Update best bid cache" / "Update best ask cache"
update_best(best_idx, price_idx) ==
  IF is_none(best_idx) \/ price_idx < unwrap(best_idx)
  THEN Some(price_idx) ELSE best_idx

\* rest_at leaving the id index as it was
rest_at_no_index(b, remaining_order, price_idx, index) ==
  [ b EXCEPT
      ![side_levels(remaining_order)] = put_level(@, price_idx,
         Some(PriceLevel_add_order(
                get_or_insert(@, price_idx, remaining_order.price),
                index, remaining_order.quantity))),
      ![side_best(remaining_order)] = update_best(@, price_idx),
      !.order_count = @ + 1,
      !.rest_seq = Append(@, remaining_order.order_id) ]

\* the order pushed on its level under the handle index
rest_at(b, remaining_order, price_idx, index) ==
  [ b EXCEPT
      !.order_id_to_index[remaining_order.order_id] = Some(index),
      ![side_levels(remaining_order)] = put_level(@, price_idx,
         Some(PriceLevel_add_order(
                get_or_insert(@, price_idx, remaining_order.price),
                index, remaining_order.quantity))),
      ![side_best(remaining_order)] = update_best(@, price_idx),
      !.order_count = @ + 1,
      !.rest_seq = Append(@, remaining_order.order_id) ]

SumQuantity(executions) ==
  LET F[i \in 0..Len(executions)] ==
        IF i = 0 THEN 0 ELSE F[i - 1] + executions[i].quantity
  IN  F[Len(executions)]

\* count_executions counting nothing: each match is counted once, in matching
count_executions_once(b, executions) == b

\* "Update execution statistics"
count_executions(b, executions) ==
  [ b EXCEPT !.total_quantity_matched = @ + SumQuantity(executions) ]

Returned(b, result, executions, fills) ==
  [ b |-> b, result |-> result, executions |-> executions, fills |-> fills ]

\* rest_allocated writing the id index before it looks at what allocate
\* returned: on a full pool the id is left pointing at handle 0
rest_allocated_marks(m, remaining_order, price_idx, a) ==
  IF is_none(a.index)
  THEN Returned([ m.b EXCEPT
                    !.order_id_to_index[remaining_order.order_id] = Some(0) ],
                "PoolFull", <<>>, m.executions)
  ELSE Returned(count_executions(rest_at(a.b, remaining_order, price_idx,
                                         unwrap(a.index)),
                                 m.executions),
                "Ok", m.executions, m.executions)

\* "Allocate from the memory pool": a is what allocate returned
rest_allocated(m, remaining_order, price_idx, a) ==
  IF is_none(a.index)
  THEN Returned(m.b, "PoolFull", <<>>, m.executions)
  ELSE Returned(count_executions(rest_at(a.b, remaining_order, price_idx,
                                         unwrap(a.index)),
                                 m.executions),
                "Ok", m.executions, m.executions)

\* rest_remaining resting a remainder of 0 as well
rest_remaining_zero(m, remaining_order, price_idx) ==
  IF remaining_order.quantity >= 0
  THEN IF is_none(price_idx)
       THEN Returned(m.b, "PriceOutOfRange", <<>>, m.executions)
       ELSE rest_allocated(m, remaining_order, unwrap(price_idx),
                           OrderPool_allocate(m.b, remaining_order))
  ELSE Returned(count_executions(m.b, m.executions),
                "Ok", m.executions, m.executions)

\* "If there's remaining quantity, add to the book"
rest_remaining(m, remaining_order, price_idx) ==
  IF remaining_order.quantity > 0
  THEN IF is_none(price_idx)
       THEN Returned(m.b, "PriceOutOfRange", <<>>, m.executions)
       ELSE rest_allocated(m, remaining_order, unwrap(price_idx),
                           OrderPool_allocate(m.b, remaining_order))
  ELSE Returned(count_executions(m.b, m.executions),
                "Ok", m.executions, m.executions)

\* the limit path of add_order, m being what matching left
after_match(m, order) ==
  rest_remaining(m, [ order EXCEPT !.quantity = m.quantity ], price_to_idx(order))

\* add_limit_order counting only the orders it accepts: a rejection takes
\* the order out of total_orders_processed again
add_limit_order_accepted(b, order) ==
  LET r == after_match(try_match(b, order), order)
  IN  IF r.result = "Ok" THEN r
      ELSE [ r EXCEPT !.b.total_orders_processed = @ - 1 ]

add_limit_order(b, order) == after_match(try_match(b, order), order)

\* market_returned taking a pool handle for the remainder that was not filled
market_returned_leak(m) ==
  IF m.quantity > 0 /\ Len(m.b.free_indices) > 0
  THEN Returned([ m.b EXCEPT !.free_indices = SubSeq(@, 1, Len(@) - 1) ],
                "Ok", m.executions, m.executions)
  ELSE Returned(m.b, "Ok", m.executions, m.executions)

\* "Handle market orders immediately"
market_returned(m) == Returned(m.b, "Ok", m.executions, m.executions)

add_market_order(b, order) == market_returned(match_market_order(b, order))

\* add_checked counting the order as processed before the duplicate check
add_checked_counts(b, order) ==
  IF id_is_live(b, order.order_id)
  THEN Returned([ b EXCEPT !.total_orders_processed = @ + 1 ],
                "DuplicateId", <<>>, <<>>)
  ELSE IF Order_order_type(order) = "Market"
  THEN add_market_order([ b EXCEPT !.total_orders_processed = @ + 1 ], order)
  ELSE add_limit_order([ b EXCEPT !.total_orders_processed = @ + 1 ], order)

\* past the duplicate check: b is the book with the id index expanded
add_checked(b, order) ==
  IF id_is_live(b, order.order_id)
  THEN Returned(b, "DuplicateId", <<>>, <<>>)
  ELSE IF Order_order_type(order) = "Market"
  THEN add_market_order([ b EXCEPT !.total_orders_processed = @ + 1 ], order)
  ELSE add_limit_order([ b EXCEPT !.total_orders_processed = @ + 1 ], order)

add_order(b, order) == add_checked(expand_ids(b, order.order_id), order)

\* ------------------------------------------------------------------------
\* OrderBook::cancel_order: [b, result]
\* ------------------------------------------------------------------------
\* find_best finding nothing: the cache is cleared when the best level empties
find_best_none(b, order) == None

find_best(b, order) ==
  IF Order_side(order) = "Buy" THEN find_best_bid_idx(b)
  ELSE find_best_ask_idx(b)

\* remove_empty_level leaving the cached best on the slot that was emptied
remove_empty_level_stale(b, order, idx) == b

\* "Remove empty price level and update best bid if needed"
remove_empty_level(b, order, idx) ==
  [ b EXCEPT ![side_best(order)] =
      IF Some(idx) = @ THEN find_best(b, order) ELSE @ ]

\* cancel_finish leaving the id index as it was
cancel_finish_keep_index(b, order_id, index) ==
  [ OrderPool_deallocate(b, index) EXCEPT
      !.order_count = @ - 1,
      !.rest_seq = retain_ne(@, order_id) ]

\* "Deallocate from the memory pool"
cancel_finish(b, order_id, index) ==
  [ OrderPool_deallocate(b, index) EXCEPT
      !.order_id_to_index[order_id] = None,
      !.order_count = @ - 1,
      !.rest_seq = retain_ne(@, order_id) ]

\* r is what PriceLevel::remove_order returned
cancel_removed(b, order_id, index, order, idx, r) ==
  IF ~r.removed THEN [ b |-> b, result |-> "RemoveFailed" ]
  ELSE IF PriceLevel_is_empty(r.level)
  THEN [ b |-> cancel_finish(
                 remove_empty_level(
                   [ b EXCEPT ![side_levels(order)] = put_level(@, idx, None) ],
                   order, idx),
                 order_id, index),
         result |-> "Ok" ]
  ELSE [ b |-> cancel_finish(
                 [ b EXCEPT ![side_levels(order)] =
                              put_level(@, idx, Some(r.level)) ],
                 order_id, index),
         result |-> "Ok" ]

\* cancel_at giving the handle back without taking it out of its level
cancel_at_keep_level(b, order_id, index, order, price_idx) ==
  [ b |-> cancel_finish(b, order_id, index), result |-> "Ok" ]

\* "Remove from the appropriate side"
cancel_at(b, order_id, index, order, price_idx) ==
  IF is_none(price_idx) THEN [ b |-> b, result |-> "PriceOutOfRange" ]
  ELSE IF is_none(level_at(b[side_levels(order)], unwrap(price_idx)))
  THEN [ b |-> b, result |-> "LevelNotFound" ]
  ELSE cancel_removed(b, order_id, index, order, unwrap(price_idx),
         PriceLevel_remove_order(
           unwrap(level_at(b[side_levels(order)], unwrap(price_idx))),
           index, order.quantity))

cancel_resting(b, order_id, index, order) ==
  cancel_at(b, order_id, index, order, price_to_idx(order))

\* cancel_order growing the id index for an id beyond it, as add_order does
cancel_order_expands(b, order_id) ==
  IF order_id >= VecLen(b.order_id_to_index)
  THEN [ b |-> expand_ids(b, order_id), result |-> "OrderNotFound" ]
  ELSE IF is_none(b.order_id_to_index[order_id])
  THEN [ b |-> b, result |-> "OrderNotFound" ]
  ELSE cancel_resting(b, order_id, unwrap(b.order_id_to_index[order_id]),
                      unwrap(b.pool[unwrap(b.order_id_to_index[order_id])]))

cancel_order(b, order_id) ==
  IF order_id >= VecLen(b.order_id_to_index)
  THEN [ b |-> b, result |-> "OrderNotFound" ]
  ELSE IF is_none(b.order_id_to_index[order_id])
  THEN [ b |-> b, result |-> "OrderNotFound" ]
  ELSE cancel_resting(b, order_id, unwrap(b.order_id_to_index[order_id]),
                      unwrap(b.pool[unwrap(b.order_id_to_index[order_id])]))

\* ------------------------------------------------------------------------
\* OrderBook::market_depth: [bids, asks], each a vector of <<price, quantity>>
\* ------------------------------------------------------------------------
\* depth_scan stopping one entry late: count > levels
RECURSIVE depth_scan_late(_, _, _, _, _)
depth_scan_late(b, lv, from, count, levels) ==
  IF count > levels \/ is_none(FirstOccupied(b[lv], from)) THEN <<>>
  ELSE << << idx_to_price(lv, unwrap(FirstOccupied(b[lv], from))),
             b[lv][unwrap(FirstOccupied(b[lv], from))].total_quantity >> >>
       \o depth_scan_late(b, lv, unwrap(FirstOccupied(b[lv], from)) + 1,
                          count + 1, levels)

\* one of the two loops: the scan goes on at offset from with count entries
\* pushed, and stops at count >= levels or at the end of the array
RECURSIVE depth_scan(_, _, _, _, _)
depth_scan(b, lv, from, count, levels) ==
  IF count >= levels \/ is_none(FirstOccupied(b[lv], from)) THEN <<>>
  ELSE << << idx_to_price(lv, unwrap(FirstOccupied(b[lv], from))),
             b[lv][unwrap(FirstOccupied(b[lv], from))].total_quantity >> >>
       \o depth_scan(b, lv, unwrap(FirstOccupied(b[lv], from)) + 1,
                     count + 1, levels)

market_depth(b, levels) ==
  [ bids |-> depth_scan(b, "buy_levels", 0, 0, levels),
    asks |-> depth_scan(b, "sell_levels", 0, 0, levels) ]

\* ------------------------------------------------------------------------
\* The state machine
\* ------------------------------------------------------------------------
Store(b) ==
  /\ pool' = b.pool
  /\ free_indices' = b.free_indices
  /\ order_id_to_index' = b.order_id_to_index
  /\ max_order_id' = b.max_order_id
  /\ buy_levels' = b.buy_levels
  /\ sell_levels' = b.sell_levels
  /\ best_bid_idx' = b.best_bid_idx
  /\ best_ask_idx' = b.best_ask_idx
  /\ order_count' = b.order_count
  /\ total_orders_processed' = b.total_orders_processed
  /\ total_quantity_matched' = b.total_quantity_matched
  /\ rest_seq' = b.rest_seq
  /\ UNCHANGED << lookup, inserted >>

Init ==
  /\ pool = OrderBook_new(Capacity).pool
  /\ free_indices = OrderBook_new(Capacity).free_indices
  /\ order_id_to_index = OrderBook_new(Capacity).order_id_to_index
  /\ max_order_id = OrderBook_new(Capacity).max_order_id
  /\ buy_levels = OrderBook_new(Capacity).buy_levels
  /\ sell_levels = OrderBook_new(Capacity).sell_levels
  /\ best_bid_idx = OrderBook_new(Capacity).best_bid_idx
  /\ best_ask_idx = OrderBook_new(Capacity).best_ask_idx
  /\ order_count = OrderBook_new(Capacity).order_count
  /\ total_orders_processed = OrderBook_new(Capacity).total_orders_processed
  /\ total_quantity_matched = OrderBook_new(Capacity).total_quantity_matched
  /\ rest_seq = OrderBook_new(Capacity).rest_seq
  /\ lookup = PriceLookupTable_new(TableCapacity)
  /\ inserted = << >>
  /\ last = [ op |-> "new" ]

\* the caller numbers its orders: a new order takes the least id not resting
fresh_id(order_id) ==
  /\ ~id_is_live(Self, order_id)
  /\ \A i \in 0..(order_id - 1) : id_is_live(Self, i)

\* a call of add_order returned r
AddReturned(order, r) ==
  /\ Store(r.b)
  /\ last' = [ op         |-> "add_order",
               order      |-> order,
               result     |-> r.result,
               executions |-> r.executions,
               fills      |-> r.fills ]

AddOrder(order) == AddReturned(order, add_order(Self, order))

\* a limit order under a new id, or under the id of a resting order
AddLimitOrder ==
  \E order_id \in OrderIds, price \in LimitPrices, quantity \in Quantities,
     side \in Sides :
    /\ total_orders_processed < MaxProcessed
    /\ fresh_id(order_id) \/ id_is_live(Self, order_id)
    /\ AddOrder(Order_new(order_id, price, quantity, side, "Limit"))

AddMarketOrder ==
  \E order_id \in OrderIds, price \in MarketPrices, quantity \in Quantities,
     side \in Sides :
    /\ total_orders_processed < MaxProcessed
    /\ fresh_id(order_id) \/ id_is_live(Self, order_id)
    /\ AddOrder(Order_new(order_id, price, quantity, side, "Market"))

\* a call of cancel_order returned r
CancelReturned(order_id, r) ==
  /\ Store(r.b)
  /\ last' = [ op       |-> "cancel_order",
               order_id |-> order_id,
               result   |-> r.result ]

CancelOrder ==
  \E order_id \in OrderIds : CancelReturned(order_id, cancel_order(Self, order_id))

Next == AddLimitOrder \/ AddMarketOrder \/ CancelOrder

Spec == Init /\ [][Next]_vars

\* the same calls, one call deeper, on the two prices next to base_price
DeepAddLimitOrder ==
  \E order_id \in OrderIds, price \in DeepPrices, quantity \in Quantities,
     side \in Sides :
    /\ total_orders_processed < MaxProcessedDeep
    /\ fresh_id(order_id)
    /\ AddOrder(Order_new(order_id, price, quantity, side, "Limit"))

DeepAddMarketOrder ==
  \E order_id \in OrderIds, price \in MarketPrices, quantity \in Quantities,
     side \in Sides :
    /\ total_orders_processed < MaxProcessedDeep
    /\ fresh_id(order_id)
    /\ AddOrder(Order_new(order_id, price, quantity, side, "Market"))

NextDeep == DeepAddLimitOrder \/ DeepAddMarketOrder \/ CancelOrder

SpecDeep == Init /\ [][NextDeep]_vars

\* the calls of Spec and market_depth, which reads the book
Depths == 0..Capacity

\* a call of market_depth returned d
DepthReturned(levels, d) ==
  /\ Store(Self)
  /\ last' = [ op     |-> "market_depth",
               levels |-> levels,
               bids   |-> d.bids,
               asks   |-> d.asks ]

MarketDepth ==
  \E levels \in Depths : DepthReturned(levels, market_depth(Self, levels))

NextDepth == AddLimitOrder \/ AddMarketOrder \/ CancelOrder \/ MarketDepth

SpecDepth == Init /\ [][NextDepth]_vars

\* the calls of SpecDeep with the timestamp field of the executions.
\* precise_time_ns() is Instant::now() followed at once by now.elapsed(): the
\* time that passed between the two readings of the clock, a small number of
\* nanoseconds that differs from call to call
precise_time_ns == 0..MaxElapsed

\* the executions with the timestamp each one took when it was pushed
Stamped(executions, timestamps) ==
  [ i \in 1..Len(executions) |->
      [ order_id  |-> executions[i].order_id,
        price     |-> executions[i].price,
        quantity  |-> executions[i].quantity,
        timestamp |-> timestamps[i],
        side      |-> executions[i].side ] ]

\* a call of add_order returned r, its executions stamped one by one
StampedAddReturned(order, r) ==
  \E timestamps \in [ 1..Len(r.fills) -> precise_time_ns ] :
    /\ Store(r.b)
    /\ last' = [ op         |-> "add_order",
                 order      |-> order,
                 result     |-> r.result,
                 executions |-> SubSeq(Stamped(r.fills, timestamps), 1,
                                       Len(r.executions)),
                 fills      |-> Stamped(r.fills, timestamps) ]

StampedAddLimitOrder ==
  \E order_id \in OrderIds, price \in DeepPrices, quantity \in Quantities,
     side \in Sides :
    /\ total_orders_processed < MaxProcessed
    /\ fresh_id(order_id)
    /\ StampedAddReturned(Order_new(order_id, price, quantity, side, "Limit"),
                          add_order(Self, Order_new(order_id, price, quantity,
                                                    side, "Limit")))

StampedAddMarketOrder ==
  \E order_id \in OrderIds, price \in MarketPrices, quantity \in Quantities,
     side \in Sides :
    /\ total_orders_processed < MaxProcessed
    /\ fresh_id(order_id)
    /\ StampedAddReturned(Order_new(order_id, price, quantity, side, "Market"),
                          add_order(Self, Order_new(order_id, price, quantity,
                                                    side, "Market")))

NextClock == StampedAddLimitOrder \/ StampedAddMarketOrder \/ CancelOrder

SpecClock == Init /\ [][NextClock]_vars

\* the calls of PriceLookupTable on one table, every price inserted while it
\* is not in the table
book_vars ==
  << pool, free_indices, order_id_to_index, max_order_id, buy_levels,
     sell_levels, best_bid_idx, best_ask_idx, order_count,
     total_orders_processed, total_quantity_matched, rest_seq >>

TableInsert ==
  \E price \in TablePrices, index \in TableIndices :
    /\ PriceLookupTable_len(lookup) < MaxEntries
    /\ price \notin DOMAIN inserted
    /\ lookup' = PriceLookupTable_insert(lookup, price, index)
    /\ inserted' = [ p \in DOMAIN inserted \cup {price} |->
                       IF p = price THEN index ELSE inserted[p] ]
    /\ last' = [ op |-> "insert", price |-> price, index |-> index ]
    /\ UNCHANGED book_vars

TableFind ==
  \E price \in TablePrices :
    /\ last' = [ op     |-> "find",
                 price  |-> price,
                 result |-> PriceLookupTable_find(lookup, price) ]
    /\ UNCHANGED << book_vars, lookup, inserted >>

TableRemove ==
  \E price \in TablePrices :
    /\ lookup' = PriceLookupTable_remove(lookup, price).t
    /\ inserted' = [ p \in DOMAIN inserted \ {price} |-> inserted[p] ]
    /\ last' = [ op     |-> "remove",
                 price  |-> price,
                 result |-> PriceLookupTable_remove(lookup, price).result ]
    /\ UNCHANGED book_vars

TableLen ==
  /\ last' = [ op |-> "len", result |-> PriceLookupTable_len(lookup) ]
  /\ UNCHANGED << book_vars, lookup, inserted >>

NextTable == TableInsert \/ TableFind \/ TableRemove \/ TableLen

SpecTable == Init /\ [][NextTable]_vars

\* ------------------------------------------------------------------------
\* What the properties speak of
\* ------------------------------------------------------------------------
LiveIds ==
  { id \in DOMAIN order_id_to_index : is_some(order_id_to_index[id]) }

HandleOf(id) == unwrap(order_id_to_index[id])

RestingOrder(id) == unwrap(pool[HandleOf(id)])

\* live quantity of the order resting under id, 0 when none rests
QuantityOf(b, id) ==
  IF id_is_live(b, id)
  THEN unwrap(b.pool[unwrap(b.order_id_to_index[id])]).quantity
  ELSE 0

\* quantity executed against id in the first n executions
ExecutedFor(executions, id, n) ==
  LET F[i \in 0..n] ==
        IF i = 0 THEN 0
        ELSE F[i - 1] + (IF executions[i].order_id = id
                         THEN executions[i].quantity ELSE 0)
  IN  F[n]

SameLevel(a, b) ==
  /\ Order_side(RestingOrder(a)) = Order_side(RestingOrder(b))
  /\ RestingOrder(a).price = RestingOrder(b).price

FifoAt(levels, idx) ==
  IF idx \in DOMAIN levels THEN levels[idx].order_indices ELSE <<>>

Range(seq) == { seq[i] : i \in 1..Len(seq) }

OwnLevels(b, order) == b[side_levels(order)]

OppositeLevels(b, order) ==
  IF Order_side(order) = "Buy" THEN b.sell_levels ELSE b.buy_levels

\* the slot of the opposite side whose level has this price
SlotAtPrice(levels, price) == CHOOSE idx \in DOMAIN levels : levels[idx].price = price

IsAdd(l) == l.op = "add_order"

IsLimitAdd(l) == IsAdd(l) /\ Order_order_type(l.order) = "Limit"

\* ------------------------------------------------------------------------
\* Properties
\* ------------------------------------------------------------------------

\* C1: price-time priority over any sequence of add_order and cancel_order
\* calls: when A and B rest at the same price on the same side and A came to
\* rest before B, no execution against B is emitted while A still rests with
\* quantity > 0 (by the time B trades, A has been filled completely).
C1_PriceTimePriority ==
  [][ IsAdd(last') =>
        \A j \in 1..Len(last'.fills) : \A a \in LiveIds :
          ( /\ last'.fills[j].order_id \in LiveIds
            /\ a # last'.fills[j].order_id
            /\ SameLevel(a, last'.fills[j].order_id)
            /\ Position(rest_seq, a)
                 < Position(rest_seq, last'.fills[j].order_id) )
          => ExecutedFor(last'.fills, a, j - 1) = RestingOrder(a).quantity
    ]_vars

\* C2: cancel_order removes the cancelled order's handle from the FIFO of its
\* level and keeps the relative order of the handles that remain, in every
\* level of both sides.
C2_CancelPreservesOrder ==
  [][ (last'.op = "cancel_order" /\ last'.result = "Ok") =>
        /\ \A idx \in DOMAIN buy_levels :
             FifoAt(buy_levels', idx)
               = retain_ne(buy_levels[idx].order_indices,
                           HandleOf(last'.order_id))
        /\ \A idx \in DOMAIN sell_levels :
             FifoAt(sell_levels', idx)
               = retain_ne(sell_levels[idx].order_indices,
                           HandleOf(last'.order_id))
    ]_vars

\* the order rests with this quantity at the tail of the level of its limit
\* price on its own side, and its id is live
RestsAtTail(b, order, quantity) ==
  /\ id_is_live(b, order.order_id)
  /\ QuantityOf(b, order.order_id) = quantity
  /\ \E idx \in DOMAIN OwnLevels(b, order) :
       /\ OwnLevels(b, order)[idx].price = order.price
       /\ OwnLevels(b, order)[idx].order_indices # <<>>
       /\ OwnLevels(b, order)[idx].order_indices[
            Len(OwnLevels(b, order)[idx].order_indices)]
            = unwrap(b.order_id_to_index[order.order_id])

\* C3: when a limit order crosses and matching fills only part of its
\* quantity, add_order rests the residual (original minus matched quantity)
\* at the tail of the FIFO of the level at the order's limit price on its
\* own side, and the order's id becomes live.
C3_ResidualRests ==
  ( /\ IsLimitAdd(last)
    /\ last.fills # <<>>
    /\ SumQuantity(last.fills) < last.order.quantity )
  => /\ last.result = "Ok"
     /\ RestsAtTail(Self, last.order,
                    last.order.quantity - SumQuantity(last.fills))

\* C4: every add_order failure is detected before any matching: when
\* add_order returns an error, no resting order was filled, reduced or
\* removed by the call.
C4_ErrorsBeforeMatching ==
  [][ (IsAdd(last') /\ last'.result # "Ok") =>
        /\ pool' = pool
        /\ free_indices' = free_indices
        /\ buy_levels' = buy_levels
        /\ sell_levels' = sell_levels
    ]_vars

\* C5: every fill add_order applies to a resting order is delivered to the
\* caller as an Execution: what each resting order lost in the call is what
\* the returned executions report against its id.
C5_FillsDelivered ==
  [][ IsAdd(last') =>
        \A id \in LiveIds :
          id # last'.order.order_id =>
            QuantityOf(Self, id) - QuantityOf(Self', id)
              = ExecutedFor(last'.executions, id, Len(last'.executions))
    ]_vars

\* a level of that price is better for the incoming order than price
BetterFor(order, level_price, price) ==
  IF Order_side(order) = "Buy" THEN level_price < price
  ELSE level_price > price

C7_RestingPrice ==
  [][ IsAdd(last') =>
        \A j \in 1..Len(last'.fills) :
          /\ id_is_live(Self, last'.fills[j].order_id)
          /\ last'.fills[j].price = RestingOrder(last'.fills[j].order_id).price
          /\ \E idx \in DOMAIN OppositeLevels(Self, last'.order) :
               /\ OppositeLevels(Self, last'.order)[idx].price
                    = last'.fills[j].price
               /\ HandleOf(last'.fills[j].order_id)
                    \in Range(OppositeLevels(Self, last'.order)[idx].order_indices)
          /\ IsLimitAdd(last') =>
               ~BetterFor(last'.order, last'.order.price, last'.fills[j].price)
    ]_vars

\* a limit order traded at a price that is not its own
C7_Witness ==
  /\ IsLimitAdd(last)
  /\ last.fills # <<>>
  /\ last.fills[1].price # last.order.price

\* C8: every execution carries the id and the side of the resting order: the
\* id of an order that rested before the call, never the id of the incoming
\* order, and the side opposite to the incoming order's.
C8_RestingIdAndSide ==
  [][ IsAdd(last') =>
        \A j \in 1..Len(last'.fills) :
          /\ last'.fills[j].order_id \in LiveIds
          /\ last'.fills[j].order_id # last'.order.order_id
          /\ last'.fills[j].side
               = Order_side(RestingOrder(last'.fills[j].order_id))
          /\ last'.fills[j].side # Order_side(last'.order)
    ]_vars

\* a call returned executions
C8_Witness ==
  /\ IsAdd(last)
  /\ last.result = "Ok"
  /\ last.executions # <<>>

\* C9: add_order of a Buy limit order with price = base_price, an id that is
\* not live and a positive quantity is rejected with a price-out-of-range
\* error, in every reachable book state.
C9_BuyAtBaseRejected ==
  ( /\ IsLimitAdd(last)
    /\ Order_side(last.order) = "Buy"
    /\ last.order.price = base_price
    /\ last.order.quantity > 0
    /\ last.result # "DuplicateId" )
  => last.result = "PriceOutOfRange"

\* the side's window of prices
InWindow(order) ==
  IF Order_side(order) = "Buy"
  THEN /\ base_price - (PRICE_LEVELS - 1) <= order.price
       /\ order.price <= base_price - 1
  ELSE /\ base_price <= order.price
       /\ order.price <= base_price + (PRICE_LEVELS - 1)

WindowOffset(order) ==
  IF Order_side(order) = "Buy" THEN base_price - order.price
  ELSE order.price - base_price

\* the order rests in book b, in the slot at its offset
RestsIn(b, order) ==
  /\ id_is_live(b, order.order_id)
  /\ WindowOffset(order) \in DOMAIN OwnLevels(b, order)
  /\ unwrap(b.order_id_to_index[order.order_id])
       \in Range(OwnLevels(b, order)[WindowOffset(order)].order_indices)

\* C10: a limit order with an id that is not live and a positive quantity,
\* submitted while the pool has a free handle, comes to rest iff its price
\* lies in its side's window: Buy iff base_price - 1023 <= price <=
\* base_price - 1, Sell iff base_price <= price <= base_price + 1023.
C10_RestsIffInWindow ==
  [][ ( /\ IsLimitAdd(last')
        /\ last'.order.quantity > 0
        /\ ~id_is_live(Self, last'.order.order_id)
        /\ free_indices # <<>> )
      => ( (last'.result = "Ok" /\ RestsIn(Self', last'.order))
             <=> InWindow(last'.order) )
    ]_vars

\* a Sell at base_price itself has come to rest
C10_Witness ==
  /\ IsLimitAdd(last)
  /\ Order_side(last.order) = "Sell"
  /\ last.order.price = base_price
  /\ last.result = "Ok"
  /\ RestsIn(Self, last.order)

\* C11: the book is never crossed: after any add_order or cancel_order, with
\* Ok or with an error, when both a best bid and a best ask exist
\* best_bid < best_ask, and is_crossed() is false.
C11_NeverCrossed ==
  /\ ~is_crossed(Self)
  /\ (is_some(best_bid(Self)) /\ is_some(best_ask(Self)))
       => unwrap(best_bid(Self)) < unwrap(best_ask(Self))

\* both sides are occupied at the two prices next to each other, after a call
\* that matched
C11_Witness ==
  /\ IsAdd(last)
  /\ last.fills # <<>>
  /\ best_bid(Self) = Some(base_price - 1)
  /\ best_ask(Self) = Some(base_price)

\* the highest and the lowest price among the levels of one side
HighestPrice(levels) ==
  CHOOSE p \in { levels[i].price : i \in DOMAIN levels } :
    \A i \in DOMAIN levels : levels[i].price <= p

LowestPrice(levels) ==
  CHOOSE p \in { levels[i].price : i \in DOMAIN levels } :
    \A i \in DOMAIN levels : p <= levels[i].price

\* C12: after every add_order and cancel_order, error returns included,
\* best_bid_idx is the minimum occupied offset of buy_levels and best_ask_idx
\* the minimum occupied offset of sell_levels, absent when the side is empty;
\* so best_bid() is the highest resting buy price and best_ask() the lowest
\* resting sell price.
C12_BestCache ==
  /\ best_bid_idx = find_best_bid_idx(Self)
  /\ best_ask_idx = find_best_ask_idx(Self)
  /\ best_bid(Self) = IF DOMAIN buy_levels = {} THEN None
                      ELSE Some(HighestPrice(buy_levels))
  /\ best_ask(Self) = IF DOMAIN sell_levels = {} THEN None
                      ELSE Some(LowestPrice(sell_levels))

\* matching emptied the best ask level and the cache moved to the far level
C12_Witness ==
  /\ IsAdd(last)
  /\ last.fills # <<>>
  /\ last.fills[1].price = base_price
  /\ best_ask_idx = Some(PRICE_LEVELS - 1)

\* sum of the quantities the pool holds for the handles of a FIFO
LiveQuantity(order_indices) ==
  LET F[i \in 0..Len(order_indices)] ==
        IF i = 0 THEN 0
        ELSE F[i - 1] + unwrap(pool[order_indices[i]]).quantity
  IN  F[Len(order_indices)]

\* C13: in every reachable state the total_quantity of every occupied level
\* is the sum of the live quantities of the pool orders its FIFO refers to.
C13_QuantitySum ==
  /\ \A idx \in DOMAIN buy_levels :
       buy_levels[idx].total_quantity
         = LiveQuantity(buy_levels[idx].order_indices)
  /\ \A idx \in DOMAIN sell_levels :
       sell_levels[idx].total_quantity
         = LiveQuantity(sell_levels[idx].order_indices)

\* a resting order was filled in part and still rests in its level
C13_Witness ==
  /\ IsAdd(last)
  /\ last.fills # <<>>
  /\ last.fills[1].order_id \in LiveIds
  /\ RestingOrder(last.fills[1].order_id).quantity > 0
  /\ last.fills[1].order_id # last.order.order_id

\* the handles the FIFOs of one side refer to
HandlesIn(levels) ==
  UNION { Range(levels[idx].order_indices) : idx \in DOMAIN levels }

\* C14: in every reachable state, for every handle h a price level FIFO
\* refers to, the pool slot h holds an initialised order and the id index
\* maps that order's id back to h.
C14_HandlesConsistent ==
  \A h \in HandlesIn(buy_levels) \cup HandlesIn(sell_levels) :
    /\ h \in DOMAIN pool
    /\ is_some(pool[h])
    /\ unwrap(pool[h]).order_id \in DOMAIN order_id_to_index
    /\ order_id_to_index[unwrap(pool[h]).order_id] = Some(h)

\* an order rests under a handle that an earlier order gave back
C14_Witness ==
  \E h \in HandlesIn(buy_levels) \cup HandlesIn(sell_levels) :
    /\ unwrap(pool[h]).order_id # h
    /\ order_id_to_index[unwrap(pool[h]).order_id] = Some(h)

\* how many times the FIFO names the handle
Occurrences(order_indices, h) ==
  Cardinality({ i \in 1..Len(order_indices) : order_indices[i] = h })

\* the handle is named once by the level of the order's side and price, and
\* by no other level of either side
InOwnLevelOnly(h, order) ==
  /\ is_some(price_to_idx(order))
  /\ unwrap(price_to_idx(order)) \in DOMAIN OwnLevels(Self, order)
  /\ OwnLevels(Self, order)[unwrap(price_to_idx(order))].price = order.price
  /\ Occurrences(OwnLevels(Self, order)[unwrap(price_to_idx(order))].order_indices,
                 h) = 1
  /\ \A idx \in DOMAIN OwnLevels(Self, order) :
       idx # unwrap(price_to_idx(order))
         => h \notin Range(OwnLevels(Self, order)[idx].order_indices)
  /\ h \notin HandlesIn(OppositeLevels(Self, order))

\* C15: in every reachable state at most one order rests per id, the id index
\* maps an id to a handle iff an order with that id rests, and every mapped
\* handle is named exactly once, by the FIFO of the level at that order's side
\* and price and by no other level.
C15_IdIndexExact ==
  /\ \A h1, h2 \in HandlesIn(buy_levels) \cup HandlesIn(sell_levels) :
       h1 # h2 => unwrap(pool[h1]).order_id # unwrap(pool[h2]).order_id
  /\ LiveIds = { unwrap(pool[h]).order_id :
                   h \in HandlesIn(buy_levels) \cup HandlesIn(sell_levels) }
  /\ \A id \in LiveIds :
       /\ is_some(pool[HandleOf(id)])
       /\ RestingOrder(id).order_id = id
       /\ InOwnLevelOnly(HandleOf(id), RestingOrder(id))

\* an order was cancelled out of a level while another order rests on
C15_Witness ==
  /\ last.op = "cancel_order"
  /\ last.result = "Ok"
  /\ last.order_id \notin LiveIds
  /\ LiveIds # {}

\* every occupied slot of the side holds a level with orders, quantity and
\* the price of the slot
LevelsWellFormed(levels, lv) ==
  \A idx \in DOMAIN levels :
    /\ idx \in 0..(PRICE_LEVELS - 1)
    /\ levels[idx].order_indices # <<>>
    /\ levels[idx].total_quantity > 0
    /\ \A h \in Range(levels[idx].order_indices) :
         unwrap(pool[h]).quantity > 0
    /\ levels[idx].price = idx_to_price(lv, idx)

\* C16: in every reachable state every occupied slot of buy_levels and
\* sell_levels has a non-empty FIFO and total_quantity > 0, every order a FIFO
\* refers to has quantity > 0, and the level's price is the price of its slot
\* (base_price - offset for bids, base_price + offset for asks).
C16_LevelsWellFormed ==
  /\ LevelsWellFormed(buy_levels, "buy_levels")
  /\ LevelsWellFormed(sell_levels, "sell_levels")

\* a limit order of quantity 0 with a price in its window was taken with Ok
\* while orders rest on its side
C16_Witness ==
  /\ IsLimitAdd(last)
  /\ last.order.quantity = 0
  /\ last.result = "Ok"
  /\ InWindow(last.order)
  /\ DOMAIN OwnLevels(Self, last.order) # {}

\* quantity resting in book b: the live quantities of the ids 0..n-1
RestingQuantity(b, n) ==
  LET F[i \in 0..n] ==
        IF i = 0 THEN 0 ELSE F[i - 1] + QuantityOf(b, i - 1)
  IN  F[n]

TotalResting(b) == RestingQuantity(b, VecLen(b.order_id_to_index))

\* what a call of add_order adds to the resting quantity when the accounts
\* balance: the quantity of an order taken with Ok, less every returned
\* execution once for the resting order and once for the incoming one, less
\* the remainder a market order leaves unfilled
AdmittedNet(l) ==
  IF l.result = "Ok"
  THEN l.order.quantity - 2 * SumQuantity(l.executions)
       - (IF Order_order_type(l.order) = "Market"
          THEN l.order.quantity - SumQuantity(l.executions) ELSE 0)
  ELSE 0

\* C17: conservation over any sequence of calls, call by call: the executions
\* a call returns never exceed what was admitted and still rests, and the
\* quantity resting in the book changes by the quantity of an order whose
\* add_order returned Ok, minus each returned execution counted once for the
\* resting order and once for the aggressor, minus the live quantity a
\* successful cancel removes, minus the unfilled remainder of a market order.
C17_Conservation ==
  [][ /\ IsAdd(last') =>
           /\ SumQuantity(last'.executions) <= TotalResting(Self)
           /\ TotalResting(Self') = TotalResting(Self) + AdmittedNet(last')
      /\ last'.op = "cancel_order" =>
           TotalResting(Self')
             = TotalResting(Self)
               - (IF last'.result = "Ok"
                  THEN QuantityOf(Self, last'.order_id) ELSE 0)
    ]_vars

\* C18: summary().total_quantity_matched accumulates as the tests record it:
\* an add_order of a limit order that returns Ok adds twice the sum of the
\* returned executions' quantities, an add_order of a market order adds the
\* sum of its executions' quantities once, and cancel_order and adds that
\* match nothing leave it unchanged.
C18_MatchedStatistic ==
  [][ /\ (IsLimitAdd(last') /\ last'.result = "Ok") =>
           total_quantity_matched'
             = total_quantity_matched + 2 * SumQuantity(last'.executions)
      /\ (IsAdd(last') /\ Order_order_type(last'.order) = "Market"
            /\ last'.result = "Ok") =>
           total_quantity_matched'
             = total_quantity_matched + SumQuantity(last'.executions)
      /\ (IsAdd(last') /\ last'.fills = <<>>) =>
           total_quantity_matched' = total_quantity_matched
      /\ last'.op = "cancel_order" =>
           total_quantity_matched' = total_quantity_matched
    ]_vars

\* a limit order matched and returned Ok after a market order had matched
C18_Witness ==
  /\ IsLimitAdd(last)
  /\ last.result = "Ok"
  /\ last.executions # <<>>
  /\ total_quantity_matched > 2 * SumQuantity(last.executions)

IsMarketAdd(l) == IsAdd(l) /\ Order_order_type(l.order) = "Market"

\* C19: market orders never rest: after add_order of a market order returns,
\* the id index has no entry for the order (an id that was not live is not
\* live afterwards, and a call rejected for its live id changes nothing), no
\* pool handle was taken for it, and the remainder that was not filled is
\* discarded: the order's own side of the book is unchanged.
C19_MarketNeverRests ==
  [][ IsMarketAdd(last') =>
        /\ last'.result \in {"Ok", "DuplicateId"}
        /\ last'.result = "Ok"
             <=> ~id_is_live(Self, last'.order.order_id)
        /\ last'.result = "Ok" => ~id_is_live(Self', last'.order.order_id)
        /\ last'.result = "DuplicateId" => Self' = Self
        /\ Range(free_indices) \subseteq Range(free_indices')
        /\ Len(free_indices') >= Len(free_indices)
        /\ OwnLevels(Self', last'.order) = OwnLevels(Self, last'.order)
        /\ Self'[side_best(last'.order)] = Self[side_best(last'.order)]
        /\ HandlesIn(buy_levels') \cup HandlesIn(sell_levels')
             \subseteq HandlesIn(buy_levels) \cup HandlesIn(sell_levels)
    ]_vars

\* a market order was filled in part, with orders resting on its own side
C19_Witness ==
  /\ IsMarketAdd(last)
  /\ last.result = "Ok"
  /\ last.executions # <<>>
  /\ SumQuantity(last.executions) < last.order.quantity
  /\ DOMAIN OwnLevels(Self, last.order) # {}
  /\ free_indices # <<>>

\* the id index as the mapping it stands for: live id -> handle
IdMapping(b) ==
  [ id \in { i \in DOMAIN b.order_id_to_index :
               is_some(b.order_id_to_index[i]) } |->
      unwrap(b.order_id_to_index[id]) ]

\* C20: a market order submitted with an id that is not live while the
\* opposite side is empty returns Ok with no executions, and leaves every
\* level, the id index, the pool and both best prices unchanged.
C20_MarketOnEmptySide ==
  [][ ( /\ IsMarketAdd(last')
        /\ ~id_is_live(Self, last'.order.order_id)
        /\ DOMAIN OppositeLevels(Self, last'.order) = {} )
      => /\ last'.result = "Ok"
         /\ last'.executions = <<>>
         /\ last'.fills = <<>>
         /\ buy_levels' = buy_levels
         /\ sell_levels' = sell_levels
         /\ IdMapping(Self') = IdMapping(Self)
         /\ pool' = pool
         /\ free_indices' = free_indices
         /\ best_bid_idx' = best_bid_idx
         /\ best_ask_idx' = best_ask_idx
         /\ best_bid(Self') = best_bid(Self)
         /\ best_ask(Self') = best_ask(Self)
    ]_vars

\* a market order under an id past the first length of the id index found
\* the opposite side empty while its own side was full
C20_Witness ==
  /\ IsMarketAdd(last)
  /\ last.order.order_id >= Capacity
  /\ last.order.quantity > 0
  /\ last.result = "Ok"
  /\ last.executions = <<>>
  /\ DOMAIN OppositeLevels(Self, last.order) = {}
  /\ DOMAIN OwnLevels(Self, last.order) # {}
  /\ free_indices = <<>>

\* C21: add_order of any order, limit or market, whose id is live returns a
\* duplicate-id error and changes nothing: nothing is matched, the resting
\* order of that id keeps its price, quantity and place in its FIFO, and
\* levels, bests and counters are unchanged.
C21_DuplicateRejected ==
  [][ (IsAdd(last') /\ id_is_live(Self, last'.order.order_id)) =>
        /\ last'.result = "DuplicateId"
        /\ last'.executions = <<>>
        /\ last'.fills = <<>>
        /\ UNCHANGED << pool, free_indices, order_id_to_index, max_order_id,
                        buy_levels, sell_levels, best_bid_idx, best_ask_idx,
                        order_count, total_orders_processed,
                        total_quantity_matched, rest_seq >>
    ]_vars

\* an order that would have matched was rejected for its live id
C21_Witness ==
  /\ IsAdd(last)
  /\ last.result = "DuplicateId"
  /\ last.order.quantity > 0
  /\ DOMAIN OppositeLevels(Self, last.order) # {}
  /\ \/ Order_order_type(last.order) = "Market"
     \/ crosses(Self, last.order)

\* the call l filled the resting order of this id completely: it traded, and
\* the pool slot it gave back holds its quantity of 0
FilledOut(b, l, id) ==
  /\ IsAdd(l)
  /\ \E j \in 1..Len(l.fills) : l.fills[j].order_id = id
  /\ \E h \in Range(b.free_indices) :
       /\ is_some(b.pool[h])
       /\ unwrap(b.pool[h]).order_id = id
       /\ unwrap(b.pool[h]).quantity = 0

\* the order of this id left the book in the call l
LeftBook(b, l, id) ==
  \/ l.op = "cancel_order" /\ l.result = "Ok" /\ l.order_id = id
  \/ FilledOut(b, l, id)

\* C22: an id can be used again as soon as its order has left the book:
\* after cancel_order(id) succeeded, or after the resting order of that id was
\* filled completely, the next add_order with the same id is not rejected as
\* a duplicate, and a limit order of positive quantity with a price in its
\* window that does not cross rests as a new order at the tail of its level.
C22_IdReusable ==
  [][ (IsAdd(last') /\ LeftBook(Self, last, last'.order.order_id)) =>
        /\ last'.result # "DuplicateId"
        /\ ( /\ IsLimitAdd(last')
             /\ last'.order.quantity > 0
             /\ InWindow(last'.order)
             /\ ~crosses(Self, last'.order) )
           => /\ last'.result = "Ok"
              /\ RestsAtTail(Self', last'.order, last'.order.quantity)
    ]_vars

\* id 0 has come to rest behind an order that took its id while id 0 was
\* live: the id was given up and is used again
C22_Witness ==
  /\ IsLimitAdd(last)
  /\ last.result = "Ok"
  /\ last.order.order_id = 0
  /\ RestsAtTail(Self, last.order, last.order.quantity)
  /\ \E idx \in DOMAIN OwnLevels(Self, last.order) :
       /\ OwnLevels(Self, last.order)[idx].price = last.order.price
       /\ Len(OwnLevels(Self, last.order)[idx].order_indices) >= 2

\* the ids of the orders of one level, from the head of its FIFO
FifoIds(b, levels, idx) ==
  [ i \in 1..Len(FifoAt(levels, idx)) |->
      unwrap(b.pool[FifoAt(levels, idx)[i]]).order_id ]

\* two books show the same depth, the same best prices and the same orders
\* in the same order at every level
SameView(a, b) ==
  /\ market_depth(a, PRICE_LEVELS) = market_depth(b, PRICE_LEVELS)
  /\ best_bid(a) = best_bid(b)
  /\ best_ask(a) = best_ask(b)
  /\ DOMAIN a.buy_levels = DOMAIN b.buy_levels
  /\ DOMAIN a.sell_levels = DOMAIN b.sell_levels
  /\ \A idx \in DOMAIN a.buy_levels :
       FifoIds(a, a.buy_levels, idx) = FifoIds(b, b.buy_levels, idx)
  /\ \A idx \in DOMAIN a.sell_levels :
       FifoIds(a, a.sell_levels, idx) = FifoIds(b, b.sell_levels, idx)

\* the ids a caller may take for a new order: the least id that is not live,
\* and the greatest id when it is not live (it lies beyond the id index as
\* OrderBook::new sized it)
NewIds ==
  { i \in OrderIds : ~id_is_live(Self, i) /\ (fresh_id(i) \/ i = MaxOrderId) }

\* the orders a caller may submit under such an id
Submittable ==
  { Order_new(order_id, price, quantity, side, "Limit") :
      order_id \in NewIds, price \in LimitPrices, quantity \in Quantities,
      side \in Sides }
  \cup
  { Order_new(order_id, price, quantity, side, "Market") :
      order_id \in NewIds, price \in MarketPrices, quantity \in Quantities,
      side \in Sides }

\* add_order(order) returned r with Ok and no executions
AdmittedQuietly(r) == r.result = "Ok" /\ r.executions = <<>>

\* r is what add_order(order) returned on book b; cancel_order(order.order_id)
\* follows at once
RoundTrip(b, order, r) ==
  AdmittedQuietly(r) => SameView(cancel_order(r.b, order.order_id).b, b)

\* C23: admit/cancel round trip.  From every reachable state, an add_order
\* that returns Ok with no executions, followed immediately by cancel_order
\* of the same id, leaves a book whose market_depth, best_bid, best_ask and
\* order of the orders at every level equal those before the add_order.
C23_RoundTrip ==
  \A order \in Submittable : RoundTrip(Self, order, add_order(Self, order))

\* r put the order on a new level that became the best of a side that had a
\* level already, and the cancel that follows succeeds
NewBestThenCancelled(b, order, r) ==
  /\ AdmittedQuietly(r)
  /\ DOMAIN OwnLevels(b, order) # {}
  /\ r.b[side_best(order)] # b[side_best(order)]
  /\ RestsAtTail(r.b, order, order.quantity)
  /\ cancel_order(r.b, order.order_id).result = "Ok"

\* a book on which such a round trip can be made, reached by a cancel
C23_Witness ==
  /\ last.op = "cancel_order"
  /\ last.result = "Ok"
  /\ \E order \in Submittable :
       /\ order.order_id = last.order_id
       /\ NewBestThenCancelled(Self, order, add_order(Self, order))

\* an order of this id rests: a FIFO of one of the sides refers to it
IsResting(b, id) ==
  \E h \in HandlesIn(b.buy_levels) \cup HandlesIn(b.sell_levels) :
    unwrap(b.pool[h]).order_id = id

IsCancel(l) == l.op = "cancel_order"

\* C24: cancel_order(id) returns the order-not-found error and leaves the
\* whole book unchanged whenever no order of that id rests: the id was never
\* admitted, lies beyond the id index, was the id of a market order or of a
\* rejected order, or its order was cancelled or filled completely before.
C24_CancelNotResting ==
  [][ (IsCancel(last') /\ ~IsResting(Self, last'.order_id)) =>
        /\ last'.result = "OrderNotFound"
        /\ UNCHANGED << pool, free_indices, order_id_to_index, max_order_id,
                        buy_levels, sell_levels, best_bid_idx, best_ask_idx,
                        order_count, total_orders_processed,
                        total_quantity_matched, rest_seq >>
    ]_vars

\* the cancel of an id whose order was filled completely before was turned
\* down, on a book that holds other orders
C24_Witness ==
  /\ IsCancel(last)
  /\ last.result = "OrderNotFound"
  /\ LiveIds # {}
  /\ \E h \in Range(free_indices) :
       /\ is_some(pool[h])
       /\ unwrap(pool[h]).order_id = last.order_id
       /\ unwrap(pool[h]).quantity = 0

\* what cancel_order(id) of the resting order `order`, held under handle h in
\* slot idx of its side, leaves of book a in book b
RemovedExactly(a, b, id, h, order, idx) ==
  /\ ~id_is_live(b, id)
  /\ ~IsResting(b, id)
     \* the level of the order
  /\ IF Len(FifoAt(OwnLevels(a, order), idx)) = 1
     THEN idx \notin DOMAIN OwnLevels(b, order)
     ELSE /\ idx \in DOMAIN OwnLevels(b, order)
          /\ OwnLevels(b, order)[idx].total_quantity
               = OwnLevels(a, order)[idx].total_quantity - order.quantity
          /\ OwnLevels(b, order)[idx].price = OwnLevels(a, order)[idx].price
          /\ Range(FifoAt(OwnLevels(b, order), idx))
               = Range(FifoAt(OwnLevels(a, order), idx)) \ {h}
          /\ Len(FifoAt(OwnLevels(b, order), idx))
               = Len(FifoAt(OwnLevels(a, order), idx)) - 1
     \* the cached best of the side
  /\ IF /\ Len(FifoAt(OwnLevels(a, order), idx)) = 1
        /\ a[side_best(order)] = Some(idx)
     THEN b[side_best(order)] = FirstOccupied(OwnLevels(b, order), 0)
     ELSE b[side_best(order)] = a[side_best(order)]
     \* the handle
  /\ b.free_indices = Append(a.free_indices, h)
     \* everything else
  /\ \A i \in (DOMAIN OwnLevels(a, order) \cup DOMAIN OwnLevels(b, order)) \ {idx} :
       level_at(OwnLevels(b, order), i) = level_at(OwnLevels(a, order), i)
  /\ OppositeLevels(b, order) = OppositeLevels(a, order)
  /\ IF Order_side(order) = "Buy" THEN b.best_ask_idx = a.best_ask_idx
     ELSE b.best_bid_idx = a.best_bid_idx
  /\ \A other \in DOMAIN a.order_id_to_index \ {id} :
       /\ id_is_live(b, other) = id_is_live(a, other)
       /\ QuantityOf(b, other) = QuantityOf(a, other)

\* C25: a successful cancel_order(id) removes exactly that order: the
\* total_quantity of its level drops by the quantity the order still has, the
\* slot becomes empty iff it was the last order of the level, the cached best
\* of the side is found again by a scan iff the emptied level was the cached
\* best, the handle goes back to the pool, and every other level and the
\* quantity of every other order are unchanged.
C25_CancelRemovesExactly ==
  [][ (IsCancel(last') /\ last'.result = "Ok") =>
        /\ id_is_live(Self, last'.order_id)
        /\ RemovedExactly(Self, Self', last'.order_id,
                          HandleOf(last'.order_id),
                          RestingOrder(last'.order_id),
                          WindowOffset(RestingOrder(last'.order_id)))
    ]_vars

\* the order cancelled was alone on the best level of its side, and the scan
\* found the next level of that side
C25_Witness ==
  /\ IsCancel(last)
  /\ last.result = "Ok"
  /\ free_indices # <<>>
  /\ unwrap(pool[free_indices[Len(free_indices)]]).order_id = last.order_id
  /\ is_some(Self[side_best(unwrap(pool[free_indices[Len(free_indices)]]))])
  /\ unwrap(Self[side_best(unwrap(pool[free_indices[Len(free_indices)]]))])
       > WindowOffset(unwrap(pool[free_indices[Len(free_indices)]]))

IsDepth(l) == l.op = "market_depth"

\* sum of the live quantities of the orders resting on this side at this
\* price, over the ids 0..n-1
RestingAt(b, side, price, n) ==
  LET F[i \in 0..n] ==
        IF i = 0 THEN 0
        ELSE F[i - 1]
             + (IF /\ IsResting(b, i - 1)
                   /\ id_is_live(b, i - 1)
                   /\ Order_side(unwrap(b.pool[unwrap(b.order_id_to_index[i - 1])])) = side
                   /\ unwrap(b.pool[unwrap(b.order_id_to_index[i - 1])]).price = price
                THEN QuantityOf(b, i - 1) ELSE 0)
  IN  F[n]

\* depth is the list market_depth(levels) owes for one side of book b: the
\* min(levels, occupied levels) best levels, best first, each with the sum of
\* the quantities resting at its price
DepthOfSide(b, side, lv, best, depth, levels) ==
  /\ Len(depth) = Min(levels, Cardinality(DOMAIN b[lv]))
  /\ Len(depth) > 0 => Some(depth[1][1]) = best
  /\ \A i \in 1..Len(depth) :
       /\ \E idx \in DOMAIN b[lv] : b[lv][idx].price = depth[i][1]
       /\ depth[i][2] = RestingAt(b, side, depth[i][1], VecLen(b.order_id_to_index))
       /\ depth[i][2] > 0
  /\ \A i \in 1..Len(depth) : \A j \in (i + 1)..Len(depth) :
       IF side = "Buy" THEN depth[i][1] > depth[j][1]
       ELSE depth[i][1] < depth[j][1]
     \* no level left out is better than a level listed
  /\ \A idx \in DOMAIN b[lv] :
       (\A i \in 1..Len(depth) : depth[i][1] # b[lv][idx].price)
       => \A i \in 1..Len(depth) :
            IF side = "Buy" THEN depth[i][1] > b[lv][idx].price
            ELSE depth[i][1] < b[lv][idx].price

\* C26: market_depth(k) returns for each side the min(k, occupied levels)
\* best levels as (price, quantity) pairs, bids strictly decreasing in price
\* from best_bid, asks strictly increasing from best_ask, each quantity the
\* sum of the live quantities resting at that price; market_depth(0) returns
\* two empty lists; the call does not change the book.
C26_MarketDepth ==
  [][ IsDepth(last') =>
        /\ DepthOfSide(Self, "Buy", "buy_levels", best_bid(Self),
                       last'.bids, last'.levels)
        /\ DepthOfSide(Self, "Sell", "sell_levels", best_ask(Self),
                       last'.asks, last'.levels)
        /\ last'.levels = 0 => (last'.bids = <<>> /\ last'.asks = <<>>)
        /\ UNCHANGED << pool, free_indices, order_id_to_index, max_order_id,
                        buy_levels, sell_levels, best_bid_idx, best_ask_idx,
                        order_count, total_orders_processed,
                        total_quantity_matched, rest_seq >>
    ]_vars

\* market_depth(1) on a book with two bid levels, the better one holding two
\* orders: one pair came back for the bids
C26_Witness ==
  /\ IsDepth(last)
  /\ last.levels = 1
  /\ Cardinality(DOMAIN buy_levels) = 2
  /\ Len(last.bids) = 1
  /\ \E idx \in DOMAIN buy_levels :
       /\ buy_levels[idx].price = last.bids[1][1]
       /\ Len(buy_levels[idx].order_indices) = 2

LastFill(l) == l.fills[Len(l.fills)]

SideLevels(b, side) == IF side = "Buy" THEN b.buy_levels ELSE b.sell_levels

\* the handle at the head of the level of this side and price, None when the
\* side has no such level
HeadAt(b, side, price) ==
  IF \E idx \in DOMAIN SideLevels(b, side) :
       SideLevels(b, side)[idx].price = price
  THEN Some(SideLevels(b, side)[SlotAtPrice(SideLevels(b, side), price)]
              .order_indices[1])
  ELSE None

\* the call l took book a to book b and left quantity on the resting order r
\* it traded with last: the incoming order is used up, and r is at the head
\* of its level with what is left, under its id and its handle
PartialFillStays(a, b, l, r) ==
  QuantityOf(a, r) > ExecutedFor(l.fills, r, Len(l.fills))
  => /\ SumQuantity(l.fills) = l.order.quantity
     /\ id_is_live(b, r)
     /\ b.order_id_to_index[r] = a.order_id_to_index[r]
     /\ QuantityOf(b, r) = QuantityOf(a, r) - ExecutedFor(l.fills, r, Len(l.fills))
     /\ unwrap(b.pool[unwrap(b.order_id_to_index[r])]).order_id = r
     /\ unwrap(b.order_id_to_index[r]) \notin Range(b.free_indices)
     /\ HeadAt(b, LastFill(l).side, LastFill(l).price) = b.order_id_to_index[r]

\* the first fill of the call l at each price is a fill of the order that
\* was at the head of that level in book a
HeadTradesFirst(a, l) ==
  \A j \in 1..Len(l.fills) :
    (\A i \in 1..(j - 1) : l.fills[i].price # l.fills[j].price)
    => /\ id_is_live(a, l.fills[j].order_id)
       /\ HeadAt(a, l.fills[j].side, l.fills[j].price)
            = a.order_id_to_index[l.fills[j].order_id]

\* an order at the head of a level of book a that still rests in book b is at
\* the head of that level in book b
HeadStays(a, b, side) ==
  \A idx \in DOMAIN SideLevels(a, side) :
    ( /\ idx \in DOMAIN SideLevels(b, side)
      /\ FifoAt(SideLevels(a, side), idx)[1]
           \in Range(FifoAt(SideLevels(b, side), idx))
      /\ unwrap(b.pool[FifoAt(SideLevels(a, side), idx)[1]]).order_id
           = unwrap(a.pool[FifoAt(SideLevels(a, side), idx)[1]]).order_id )
    => FifoAt(SideLevels(b, side), idx)[1] = FifoAt(SideLevels(a, side), idx)[1]

\* C27: when the incoming order is used up while the resting order it traded
\* with last has quantity left, that resting order stays at the head of the
\* FIFO of its level with the reduced quantity and keeps its id index entry
\* and its pool handle; it is the first order of that price to trade with the
\* next order that crosses: an order at the head of a level stays there in
\* every call for as long as it rests, and the first fill a call makes at a
\* price is a fill of the order at the head of that level.
C27_PartialFillKeepsHead ==
  [][ /\ (IsAdd(last') /\ last'.fills # <<>>) =>
           /\ PartialFillStays(Self, Self', last', LastFill(last').order_id)
           /\ HeadTradesFirst(Self, last')
      /\ HeadStays(Self, Self', "Buy")
      /\ HeadStays(Self, Self', "Sell")
    ]_vars

\* two resting orders of one level traded with one incoming order, the first
\* of them for the second time: of the four orders submitted two came to
\* rest, one traded before and this one trades with both
C27_Witness ==
  /\ IsAdd(last)
  /\ last.result = "Ok"
  /\ total_orders_processed = MaxProcessedDeep
  /\ Len(last.fills) = 2
  /\ last.fills[1].order_id # last.fills[2].order_id
  /\ last.fills[1].price = last.fills[2].price
  /\ last.fills[1].quantity < MaxQty
  /\ total_quantity_matched
       > (IF Order_order_type(last.order) = "Limit" THEN 2 ELSE 1)
         * SumQuantity(last.fills)

\* the limit price reaches a level of the opposite side
ReachesOpposite(b, order) ==
  \E idx \in DOMAIN OppositeLevels(b, order) :
    IF Order_side(order) = "Buy"
    THEN order.price >= OppositeLevels(b, order)[idx].price
    ELSE order.price <= OppositeLevels(b, order)[idx].price

\* the limit price reaches the best price of the opposite side
CrossesBest(b, order) ==
  IF Order_side(order) = "Buy"
  THEN is_some(best_ask(b)) /\ order.price >= unwrap(best_ask(b))
  ELSE is_some(best_bid(b)) /\ order.price <= unwrap(best_bid(b))

\* every order resting in book a rests in book b as it did: same handle, same
\* quantity, the opposite side as it was, and on the order's side every FIFO
\* of a begins the FIFO of b
RestingUntouched(a, b, order) ==
  /\ OppositeLevels(b, order) = OppositeLevels(a, order)
  /\ \A id \in DOMAIN a.order_id_to_index :
       id_is_live(a, id) =>
         /\ b.order_id_to_index[id] = a.order_id_to_index[id]
         /\ b.pool[unwrap(a.order_id_to_index[id])]
              = a.pool[unwrap(a.order_id_to_index[id])]
  /\ \A idx \in DOMAIN OwnLevels(a, order) :
       /\ idx \in DOMAIN OwnLevels(b, order)
       /\ Len(FifoAt(OwnLevels(b, order), idx))
            >= Len(FifoAt(OwnLevels(a, order), idx))
       /\ SubSeq(FifoAt(OwnLevels(b, order), idx), 1,
                 Len(FifoAt(OwnLevels(a, order), idx)))
            = FifoAt(OwnLevels(a, order), idx)

\* C28: a limit order is matched only when it crosses, and never beyond its
\* limit: it trades only if it is a Buy with price >= best ask or a Sell with
\* price <= best bid, every fill it causes is at a price <= its limit for a
\* Buy and >= its limit for a Sell, and a limit order that does not cross
\* produces no executions and changes no resting order.
C28_LimitBoundsMatching ==
  [][ IsLimitAdd(last') =>
        /\ last'.fills # <<>> =>
             (CrossesBest(Self, last'.order) /\ ReachesOpposite(Self, last'.order))
        /\ \A j \in 1..Len(last'.fills) :
             IF Order_side(last'.order) = "Buy"
             THEN last'.fills[j].price <= last'.order.price
             ELSE last'.fills[j].price >= last'.order.price
        /\ ~CrossesBest(Self, last'.order) =>
             /\ last'.executions = <<>>
             /\ last'.fills = <<>>
             /\ RestingUntouched(Self, Self', last'.order)
    ]_vars

\* a limit order traded and stopped at its limit: part of it is not filled
\* while the opposite side still has a level, at a worse price
C28_Witness ==
  /\ IsLimitAdd(last)
  /\ last.fills # <<>>
  /\ SumQuantity(last.fills) < last.order.quantity
  /\ DOMAIN OppositeLevels(Self, last.order) # {}
  /\ ~ReachesOpposite(Self, last.order)

\* the places of the FIFOs of one side
PlacesIn(levels) ==
  UNION { { << idx, i >> : i \in 1..Len(levels[idx].order_indices) } :
          idx \in DOMAIN levels }

\* how many orders rest in book b
RestingCount(b) ==
  Cardinality(PlacesIn(b.buy_levels)) + Cardinality(PlacesIn(b.sell_levels))

\* a limit order that add_order has to rest: its id is not live, it has
\* quantity and its price lies in the window of its side
NeedsToRest(b, order) ==
  /\ Order_order_type(order) = "Limit"
  /\ ~id_is_live(b, order.order_id)
  /\ order.quantity > 0
  /\ InWindow(order)

\* book b holds nothing of the order, and what book a held is as it was
NothingCommitted(a, b, order) ==
  /\ ~id_is_live(b, order.order_id)
  /\ ~IsResting(b, order.order_id)
  /\ b.free_indices = a.free_indices
  /\ b.pool = a.pool
  /\ b.buy_levels = a.buy_levels
  /\ b.sell_levels = a.sell_levels
  /\ b.best_bid_idx = a.best_bid_idx
  /\ b.best_ask_idx = a.best_ask_idx
  /\ \A id \in DOMAIN a.order_id_to_index :
       b.order_id_to_index[id] = a.order_id_to_index[id]

\* C29: the number of orders resting at one time never exceeds the capacity
\* given to OrderBook::new; an add_order that has to rest an order while
\* every handle is in use returns the pool-full error and leaves no handle
\* and no id index entry for that order, with every level, both bests and
\* every other resting order unchanged.
C29_PoolFull ==
  /\ [](RestingCount(Self) <= Capacity)
  /\ [][ IsAdd(last') =>
           /\ (NeedsToRest(Self, last'.order) /\ free_indices = <<>>)
                => last'.result = "PoolFull"
           /\ last'.result = "PoolFull"
                => /\ free_indices = <<>>
                   /\ RestingCount(Self) = Capacity
                   /\ last'.executions = <<>>
                   /\ NothingCommitted(Self, Self', last'.order)
       ]_vars

\* the pool was full when a fourth order had to rest, under an id beyond the
\* id index as OrderBook::new sized it
C29_Witness ==
  /\ IsLimitAdd(last)
  /\ last.result = "PoolFull"
  /\ last.order.order_id >= Capacity
  /\ RestingCount(Self) = Capacity
  /\ buy_levels # NoLevels
  /\ sell_levels # NoLevels

\* how many places of the FIFOs of one side name the handle
ReferencesIn(levels, h) ==
  Cardinality({ p \in PlacesIn(levels) :
                  levels[p[1]].order_indices[p[2]] = h })

\* the handle is on the free list once and in no FIFO, or in one place of
\* one FIFO and not on the free list
FreeOrResting(b, h) ==
  \/ /\ Occurrences(b.free_indices, h) = 1
     /\ ReferencesIn(b.buy_levels, h) + ReferencesIn(b.sell_levels, h) = 0
  \/ /\ Occurrences(b.free_indices, h) = 0
     /\ ReferencesIn(b.buy_levels, h) + ReferencesIn(b.sell_levels, h) = 1

\* the handles of the resting orders of book a that the call l filled
\* completely
FilledHandles(a, l) ==
  { unwrap(a.order_id_to_index[l.fills[j].order_id]) :
      j \in { i \in 1..Len(l.fills) :
                QuantityOf(a, l.fills[i].order_id)
                  = ExecutedFor(l.fills, l.fills[i].order_id, Len(l.fills)) } }

\* C30: pool handles never leak and are never freed twice: after any
\* sequence of add_order and cancel_order calls each handle 0..capacity-1 is
\* either on the free list exactly once or named exactly once by exactly one
\* level FIFO, never both, so free handles + resting orders = capacity; a
\* handle is released when its order is filled completely and when it is
\* cancelled, and none is taken for a rejected order or a market order.
C30_HandlesAccounted ==
  /\ []( /\ DOMAIN pool = 0..(Capacity - 1)
         /\ Range(free_indices) \subseteq DOMAIN pool
         /\ HandlesIn(buy_levels) \cup HandlesIn(sell_levels) \subseteq DOMAIN pool
         /\ \A h \in DOMAIN pool : FreeOrResting(Self, h)
         /\ Len(free_indices) + RestingCount(Self) = Capacity )
  /\ [][ /\ IsAdd(last') =>
              /\ FilledHandles(Self, last') \subseteq Range(free_indices')
              /\ (Order_order_type(last'.order) = "Market" \/ last'.result # "Ok")
                   => /\ Range(free_indices) \subseteq Range(free_indices')
                      /\ Len(free_indices')
                           = Len(free_indices)
                             + Cardinality(FilledHandles(Self, last'))
         /\ (IsCancel(last') /\ last'.result = "Ok")
              => /\ HandleOf(last'.order_id) \notin Range(free_indices)
                 /\ free_indices' = Append(free_indices, HandleOf(last'.order_id))
       ]_vars

\* a handle came back through a complete fill and another through a cancel,
\* while an order rests: the free list is not in the order of OrderPool::new
C30_Witness ==
  /\ IsCancel(last)
  /\ last.result = "Ok"
  /\ Len(free_indices) = Capacity - 1
  /\ RestingCount(Self) = 1
  /\ \E i \in 1..Len(free_indices) :
       /\ i < Len(free_indices)
       /\ is_some(pool[free_indices[i]])
       /\ unwrap(pool[free_indices[i]]).quantity = 0

\* C31: spread() returns best_ask - best_bid when both sides hold resting
\* orders and nothing otherwise; in every reachable state the subtraction on
\* u64 does not go below 0 and the result is strictly positive.
C31_Spread ==
  IF buy_levels # NoLevels /\ sell_levels # NoLevels
  THEN /\ spread(Self)
            = Some(LowestPrice(sell_levels) - HighestPrice(buy_levels))
       /\ unwrap(spread(Self)) > 0
  ELSE spread(Self) = None

\* the narrowest book: a bid one tick under base_price and an ask at it
C31_Witness ==
  /\ buy_levels # NoLevels
  /\ sell_levels # NoLevels
  /\ spread(Self) = Some(tick_size)
  /\ IsCancel(last)

\* summary().order_count, the field the perf feature keeps
summary_order_count(b) == b.order_count

\* 1 when the order of the call l rests in book b, else 0
CameToRest(b, l) ==
  IF l.result = "Ok" /\ IsResting(b, l.order.order_id) THEN 1 ELSE 0

\* C32: with the perf feature summary().order_count is the number of orders
\* resting in the book after any sequence of add_order and cancel_order
\* calls: a call adds 1 for an order that comes to rest and takes 1 for every
\* resting order it fills completely, a successful cancel takes 1, and the
\* admission of a market order, a rejected add_order and a rejected
\* cancel_order add nothing of their own.
C32_OrderCount ==
  /\ [](summary_order_count(Self) = RestingCount(Self))
  /\ [][ /\ IsAdd(last') =>
              /\ summary_order_count(Self')
                   = summary_order_count(Self) + CameToRest(Self', last')
                     - Cardinality(FilledHandles(Self, last'))
              /\ (Order_order_type(last'.order) = "Market" \/ last'.result # "Ok")
                   => CameToRest(Self', last') = 0
         /\ IsCancel(last') =>
              summary_order_count(Self')
                = summary_order_count(Self) - (IF last'.result = "Ok" THEN 1 ELSE 0)
       ]_vars

\* a market order used up one resting order and left another resting
C32_Witness ==
  /\ IsMarketAdd(last)
  /\ \E id \in OrderIds : FilledOut(Self, last, id)
  /\ summary_order_count(Self) >= 1
  /\ last.order.quantity > SumQuantity(last.fills)

\* C33: within one add_order call the timestamp fields of the executions are
\* non-decreasing in the order they were emitted, each being one reading of
\* a monotonic clock.
C33_TimestampsNonDecreasing ==
  IsAdd(last) =>
    \A i \in 1..Len(last.executions) : \A j \in i..Len(last.executions) :
      last.executions[i].timestamp <= last.executions[j].timestamp

\* the price of a level of the opposite side is acceptable to the order:
\* every price to a market order, the prices up to its limit to a limit order
Acceptable(order, level_price) ==
  \/ Order_order_type(order) = "Market"
  \/ IF Order_side(order) = "Buy" THEN level_price <= order.price
     ELSE level_price >= order.price

\* total quantity resting in book b on the side opposite to the order at
\* acceptable prices: the live quantities of the ids 0..n-1 that rest there
AcceptableQuantity(b, order, n) ==
  LET F[i \in 0..n] ==
        IF i = 0 THEN 0
        ELSE F[i - 1]
             + (IF /\ id_is_live(b, i - 1)
                   /\ Order_side(unwrap(b.pool[unwrap(b.order_id_to_index[i - 1])]))
                        # Order_side(order)
                   /\ Acceptable(order,
                        unwrap(b.pool[unwrap(b.order_id_to_index[i - 1])]).price)
                THEN QuantityOf(b, i - 1) ELSE 0)
  IN  F[n]

\* C34: matching is maximal: the total quantity one add_order call matches
\* is min(quantity of the incoming order, total quantity resting on the
\* opposite side at prices acceptable to the order), every price being
\* acceptable to a market order; so after the call either the incoming order
\* is used up or no opposite order at an acceptable price is left, and the
\* matched total never exceeds the incoming quantity.
C34_MatchingMaximal ==
  [][ (IsAdd(last') /\ ~id_is_live(Self, last'.order.order_id)) =>
        /\ SumQuantity(last'.fills)
             = Min(last'.order.quantity,
                   AcceptableQuantity(Self, last'.order,
                                      VecLen(order_id_to_index)))
        /\ SumQuantity(last'.fills) <= last'.order.quantity
        /\ \/ SumQuantity(last'.fills) = last'.order.quantity
           \/ AcceptableQuantity(Self', last'.order, VecLen(order_id_to_index')) = 0
    ]_vars

\* one order was matched on two levels of the opposite side
C34_Witness ==
  /\ IsAdd(last)
  /\ Len(last.fills) = 2
  /\ last.fills[1].price # last.fills[2].price
  /\ SumQuantity(last.fills) = last.order.quantity

\* quantity the call l applied to the order of this id
FilledBy(l, id) ==
  IF IsAdd(l) THEN ExecutedFor(l.fills, id, Len(l.fills)) ELSE 0

\* the order of this id is gone from book b: from the FIFOs, from the id
\* index, and its handle h is back on the free list
GoneFrom(b, id, h) ==
  /\ ~IsResting(b, id)
  /\ ~id_is_live(b, id)
  /\ ReferencesIn(b.buy_levels, h) + ReferencesIn(b.sell_levels, h) = 0
  /\ h \in Range(b.free_indices)

\* one call, l, took book a to book b; the order of this id rested in a
\* under handle h with quantity q
RestingLifecycle(a, b, l, id, h, q) ==
  /\ FilledBy(l, id) <= q
  /\ IF FilledBy(l, id) = q \/ (IsCancel(l) /\ l.result = "Ok" /\ l.order_id = id)
     THEN GoneFrom(b, id, h)
     ELSE /\ IsResting(b, id)
          /\ b.order_id_to_index[id] = Some(h)
          /\ ReferencesIn(b.buy_levels, h) + ReferencesIn(b.sell_levels, h) = 1
          /\ h \notin Range(b.free_indices)
          /\ QuantityOf(b, id) = q - FilledBy(l, id)
          /\ QuantityOf(b, id) > 0
          /\ unwrap(b.pool[h]).price = unwrap(a.pool[h]).price
          /\ unwrap(b.pool[h]).flags = unwrap(a.pool[h]).flags

\* C35: for every order that rests, its live quantity only decreases, by the
\* fills applied to it; the fills of a call never exceed the quantity it has
\* left, so their sum while it rests never exceeds the quantity it came to
\* rest with; and it leaves the FIFO of its level, the id index and the pool
\* exactly when its quantity reaches zero, and while it has quantity only by
\* a cancel.
C35_RestingLifecycle ==
  [][ \A id \in LiveIds :
        RestingLifecycle(Self, Self', last', id, HandleOf(id),
                         QuantityOf(Self, id))
    ]_vars

\* an order that was filled in part has been cancelled with the rest of its
\* quantity: two orders were submitted, the second traded with the first
C35_Witness ==
  /\ IsCancel(last)
  /\ last.result = "Ok"
  /\ total_orders_processed = 2
  /\ total_quantity_matched > 0
  /\ RestingCount(Self) = 0

\* the matching add_order runs on book b for an order past the duplicate
\* check
Matching(b, order) ==
  IF Order_order_type(order) = "Market" THEN match_market_order(b, order)
  ELSE try_match(b, order)

opposite_levels(order) ==
  IF Order_side(order) = "Buy" THEN "sell_levels" ELSE "buy_levels"

\* m is what matching the order on book a came to
WalkTerminates(a, order, m) ==
     \* offsets of occupied slots of the opposite side, strictly increasing
  /\ \A i \in 1..Len(m.visited) :
       /\ m.visited[i] \in 0..(PRICE_LEVELS - 1)
       /\ m.visited[i] \in DOMAIN OppositeLevels(a, order)
       /\ \A j \in (i + 1)..Len(m.visited) : m.visited[i] < m.visited[j]
  /\ Len(m.visited) <= PRICE_LEVELS
     \* every level worked on traded, and all but the last were left empty
  /\ \A i \in 1..Len(m.visited) :
       /\ \E j \in 1..Len(m.executions) :
            m.executions[j].price
              = idx_to_price(opposite_levels(order), m.visited[i])
       /\ i < Len(m.visited)
            => m.visited[i] \notin DOMAIN OppositeLevels(m.b, order)
  /\ \A j \in 1..Len(m.executions) :
       \E i \in 1..Len(m.visited) :
         m.executions[j].price
           = idx_to_price(opposite_levels(order), m.visited[i])
     \* the walk ends with the order used up, or with no level left that has
     \* an acceptable price
  /\ \/ m.quantity = 0
     \/ \A idx \in DOMAIN OppositeLevels(m.b, order) :
          ~Acceptable(order, OppositeLevels(m.b, order)[idx].price)
     \* and it goes no further than that
  /\ order.quantity = 0 => m.visited = <<>>
  /\ (m.visited # <<>> /\ Len(m.visited) > 1)
       => SumQuantity(m.executions) - order.quantity
            < SumQuantity(SelectSeq(m.executions,
                LAMBDA e : e.price = idx_to_price(opposite_levels(order),
                                       m.visited[Len(m.visited)])))

\* C36: every add_order and cancel_order call terminates: the matching loop
\* works on level offsets of the opposite side in strictly increasing order,
\* at most PRICE_LEVELS levels in one call, and stops as soon as the incoming
\* quantity is zero, the price bound is exceeded or the opposite side has no
\* level left; it never comes back to a level it left non-empty.
C36_MatchingTerminates ==
  [][ /\ (IsAdd(last') /\ ~id_is_live(Self, last'.order.order_id)) =>
           /\ Matching(Self, last'.order).executions = last'.fills
           /\ WalkTerminates(Self, last'.order, Matching(Self, last'.order))
      /\ IsCancel(last') =>
           last'.result \in { "Ok", "OrderNotFound", "PriceOutOfRange",
                              "LevelNotFound", "RemoveFailed" }
    ]_vars

\* an order emptied the best level of the opposite side and stopped on the
\* next one, which it left with quantity
C36_Witness ==
  /\ IsAdd(last)
  /\ Len(last.fills) = 2
  /\ last.fills[1].price # last.fills[2].price
  /\ \E idx \in DOMAIN OppositeLevels(Self, last.order) :
       OppositeLevels(Self, last.order)[idx].price = last.fills[2].price

\* every fill of the call l is a fill of an order that rested in book a under
\* the id the execution names
FillsOnlyResting(a, l) ==
  \A j \in 1..Len(l.fills) :
    /\ IsResting(a, l.fills[j].order_id)
    /\ id_is_live(a, l.fills[j].order_id)
    /\ unwrap(a.pool[unwrap(a.order_id_to_index[l.fills[j].order_id])]).order_id
         = l.fills[j].order_id

\* an id that does not rest in book a rests in book b only when the call l
\* was an add_order of that id that returned Ok
RestsOnlyByAdd(a, b, l) ==
  \A id \in DOMAIN b.order_id_to_index :
    (~IsResting(a, id) /\ (IsResting(b, id) \/ id_is_live(b, id)))
    => (IsAdd(l) /\ l.order.order_id = id /\ l.result = "Ok")

\* C37: a cancelled order never trades again: after cancel_order(id) has
\* succeeded no later add_order applies a fill to it or emits an execution
\* with its id, unless an order of that id was admitted and came to rest
\* again in between, and this also when the handle of the cancelled order
\* has been given to another order.  Call by call: a successful cancel
\* leaves the id not resting, an id comes to rest only by an add_order of
\* that id, and every fill is a fill of an order resting under the id the
\* execution names.
C37_CancelledNeverTrades ==
  [][ /\ (IsCancel(last') /\ last'.result = "Ok") =>
           /\ ~IsResting(Self', last'.order_id)
           /\ ~id_is_live(Self', last'.order_id)
      /\ RestsOnlyByAdd(Self, Self', last')
      /\ IsAdd(last') =>
           /\ FillsOnlyResting(Self, last')
           /\ (IsCancel(last) /\ last.result = "Ok") =>
                \A j \in 1..Len(last'.fills) :
                  last'.fills[j].order_id # last.order_id
    ]_vars

\* handle 1, first taken by the order of id 1, holds an order of id 0 that
\* has now traded: id 1 was cancelled and its handle given to another order
C37_Witness ==
  /\ IsAdd(last)
  /\ last.fills # <<>>
  /\ last.fills[1].order_id = 0
  /\ is_some(pool[1])
  /\ unwrap(pool[1]).order_id = 0
  /\ ~id_is_live(Self, 1)

\* the call l filled its order completely
FullyFilled(l) ==
  l.result = "Ok" /\ SumQuantity(l.fills) = l.order.quantity

OppositeBest(b, order) ==
  IF Order_side(order) = "Buy" THEN b.best_ask_idx ELSE b.best_bid_idx

\* C38: matching never touches the side of the incoming order: an add_order
\* of a market order, or of a limit order that is filled completely, leaves
\* every level, every FIFO and the best price of the order's own side
\* unchanged; and an add_order that rests an order without crossing leaves
\* the levels and the best price of the opposite side unchanged.
C38_OwnSideUntouched ==
  [][ IsAdd(last') =>
        /\ (Order_order_type(last'.order) = "Market" \/ FullyFilled(last'))
             => /\ OwnLevels(Self', last'.order) = OwnLevels(Self, last'.order)
                /\ Self'[side_best(last'.order)] = Self[side_best(last'.order)]
        /\ (CameToRest(Self', last') = 1 /\ last'.fills = <<>>)
             => /\ OppositeLevels(Self', last'.order)
                     = OppositeLevels(Self, last'.order)
                /\ OppositeBest(Self', last'.order)
                     = OppositeBest(Self, last'.order)
    ]_vars

\* a market order traded while orders rest on its own side
C38_Witness ==
  /\ IsMarketAdd(last)
  /\ last.fills # <<>>
  /\ OwnLevels(Self, last.order) # NoLevels
  /\ is_some(Self[side_best(last.order)])

\* summary().total_orders_processed
summary_total_orders_processed(b) == b.total_orders_processed

\* the call l went past the duplicate-id check of add_order
PassedDuplicateCheck(l) == IsAdd(l) /\ l.result # "DuplicateId"

IsTableCall(l) == l.op \in {"insert", "find", "remove", "len"}

\* C40: PriceLookupTable is a map over distinct prices: find(p) returns
\* Some(i) for every price p inserted with index i and not removed since,
\* whatever the number of entries and the lane the entry lies in; remove(p)
\* returns true for such a price, after it find(p) is None and every other
\* entry is still found; len() is the number of live entries.
C40_LookupIsMap ==
  [][ IsTableCall(last') =>
        /\ \A p \in DOMAIN inserted' :
             PriceLookupTable_find(lookup', p) = Some(inserted'[p])
        /\ (last'.op = "find" /\ last'.price \in DOMAIN inserted) =>
             last'.result = Some(inserted[last'.price])
        /\ (last'.op = "remove" /\ last'.price \in DOMAIN inserted) =>
             /\ last'.result = TRUE
             /\ PriceLookupTable_find(lookup', last'.price) = None
        /\ PriceLookupTable_len(lookup') = Cardinality(DOMAIN inserted')
        /\ last'.op = "len" => last'.result = Cardinality(DOMAIN inserted)
    ]_vars

====
